---- MODULE Spec2Model ----
(***************************************************************************)
(* KalypsoServing: the three reconcilers (KalypsoProject,                  *)
(* KalypsoApplication, KalypsoTritonServer) as state machines over the     *)
(* objects they read and write in the cluster store.  One action is one    *)
(* whole Reconcile invocation on one branch of its control flow; the       *)
(* outcome of every API call the handler makes (ok, version conflict,      *)
(* other API error) is an input of the action.                             *)
(***************************************************************************)
EXTENDS Integers, Sequences, FiniteSets, TLC

VARIABLES
    project,      \* the KalypsoProject object (spec, metadata, status)
    namespaces,   \* cluster namespaces, by name
    quotas,       \* namespaces holding the ResourceQuota "<project>-quota"
    limits,       \* namespaces holding the LimitRange "<project>-limits"
    app,          \* the KalypsoApplication object
    server,       \* the KalypsoTritonServer object
    deployment,   \* the Deployment "<server>-deploy"
    service,      \* the Service "<server>-svc"
    monitor,      \* the ServiceMonitor "<server>-monitor"
    queue,        \* controllers whose work queue holds the object's key
    last          \* what the last step did: the calls it issued and its return

projectVars == <<project, namespaces, quotas, limits>>
appVars == <<app>>
serverVars == <<server, deployment, service, monitor>>

vars == <<projectVars, appVars, serverVars, queue, last>>

-----------------------------------------------------------------------------
(* Bounds of the model *)

MaxEnvs == 2
MaxReplicas == 2

-----------------------------------------------------------------------------
(* Constants of the program *)

ManagedByLabelValue == "kalypso-serving"
FinalizerName == "serving.kalypso.io/finalizer"
ApplicationFinalizerShared == "serving.kalypso.io/finalizer"
ApplicationFinalizerName == "serving.kalypso.io/application-finalizer"
TritonServerFinalizerName == "serving.kalypso.io/tritonserver-finalizer"

ProjectPhaseProvisioning == "Provisioning"
ProjectPhaseReady == "Ready"
ProjectPhaseFailed == "Failed"
ApplicationPhasePending == "Pending"
ApplicationPhaseReady == "Ready"
ApplicationPhaseFailed == "Failed"
TritonServerPhasePending == "Pending"
TritonServerPhaseRunning == "Running"
TritonServerPhaseFailed == "Failed"

MissingParentRequeueSeconds == 30

NotReadyRequeueAsMissing == MissingParentRequeueSeconds

NotReadyRequeueSeconds == 10

-----------------------------------------------------------------------------
(* Names used in the model *)

ProjectName == "p1"
OtherProject == "p2"
AppName == "a1"
ServerName == "s1"

AllEnvNames == <<"dev", "prod", "stage">>
EnvNames == {AllEnvNames[i] : i \in 1..MaxEnvs}

\* outcomes of a write (Update, Status().Update, Create, Delete) on the API
WriteOutcomes == {"ok", "conflict", "apierror"}

-----------------------------------------------------------------------------
(* The return value of Reconcile, and the record of the last step *)

NoLast ==
    [op |-> "none", branch |-> "none",
     requeue |-> FALSE, requeueAfter |-> 0, err |-> "nil",
     writes |-> 0, deletes |-> {},
     failed |-> "", ownWrite |-> "none", phaseSet |-> "", message |-> "",
     availRead |-> -1, listFailed |-> FALSE]

ReturnedAsError(op, branch, requeue, after, err) ==
    [NoLast EXCEPT !.op = op, !.branch = branch, !.requeue = requeue,
                   !.requeueAfter = after, !.err = "apierror"]

Returned(op, branch, requeue, after, err) ==
    [NoLast EXCEPT !.op = op, !.branch = branch, !.requeue = requeue,
                   !.requeueAfter = after, !.err = err]

StaysQueuedWithoutDelay(r, changed) ==
    r.requeue \/ r.err # "nil" \/ changed

\* The key stays in the work queue after a reconcile that asked for a requeue,
\* returned an error (requeue with backoff), or changed the reconciled object
\* (its own write comes back as a watch event).
StaysQueued(r, changed) ==
    r.requeue \/ r.requeueAfter > 0 \/ r.err # "nil" \/ changed

AfterReconcile(who, r, changed) ==
    IF StaysQueued(r, changed) THEN queue \cup {who} ELSE queue \ {who}

-----------------------------------------------------------------------------
(* KalypsoProject *)

NoProject ==
    [exists |-> FALSE, deleting |-> FALSE, finalizers |-> {}, phase |-> "",
     envs |-> <<>>, created |-> <<>>, condReady |-> "", condReadyMessage |-> "",
     condNamespaceCreated |-> ""]

\* a label that is none of the keys the reconcilers set, put on an object by
\* someone else
ForeignLabel == <<"team", "ml">>

NoNamespace ==
    [exists |-> FALSE, project |-> "", environment |-> "", managedBy |-> "",
     owner |-> "", otherLabels |-> {}]

\* the default namespace name of an environment: fmt.Sprintf("%s-%s", project.Name, envName)
DefaultNsName(projName, envName) == projName \o "-" \o envName

NsNames == {DefaultNsName(ProjectName, e) : e \in EnvNames}

\* EnvironmentSpec values a user writes: namespace ("" = unset), resourceQuota and
\* limitRange present or nil.  The first environment comes plain or with a quota
\* and a limit range; the others come plain or naming the namespace that the
\* first environment gets by default.
PlainEnv == [namespace |-> "", quota |-> FALSE, limit |-> FALSE]
QuotaEnv == [namespace |-> "", quota |-> TRUE, limit |-> TRUE]
SharedEnv ==
    [namespace |-> DefaultNsName(ProjectName, AllEnvNames[1]), quota |-> FALSE, limit |-> FALSE]

EnvSpecChoices(e) ==
    IF e = AllEnvNames[1] THEN {PlainEnv, QuotaEnv} ELSE {PlainEnv, SharedEnv}

\* Spec.Environments: a map from some environment names to their specs
EnvironmentMaps ==
    UNION { { m \in [S -> {PlainEnv, QuotaEnv, SharedEnv}] :
                \A e \in S : m[e] \in EnvSpecChoices(e) } : S \in SUBSET EnvNames }

NsName(projName, envName, envSpec) ==
    IF envSpec.namespace = "" THEN DefaultNsName(projName, envName) ELSE envSpec.namespace

\* Go iterates a map in an unspecified order: every order of the keys
Orders(S) ==
    { o \in [1..Cardinality(S) -> S] : \A i, j \in 1..Cardinality(S) : o[i] = o[j] => i = j }

ChildStore == [ns |-> namespaces, quotas |-> quotas, limits |-> limits]

reconcileNamespaceByReplacing(ns, projName, envName) ==
    IF ns.exists
    THEN NoNamespace
    ELSE [exists |-> TRUE, project |-> projName, environment |-> envName,
          managedBy |-> ManagedByLabelValue, owner |-> "", otherLabels |-> {}]

\* the namespace object after reconcileNamespace: Create with the three labels
\* when absent, else the three labels written over the existing ones and Update
reconcileNamespace(ns, projName, envName) ==
    IF ns.exists
    THEN [ns EXCEPT !.project = projName, !.environment = envName,
                    !.managedBy = ManagedByLabelValue]
    ELSE [exists |-> TRUE, project |-> projName, environment |-> envName,
          managedBy |-> ManagedByLabelValue, owner |-> "", otherLabels |-> {}]

\* the API calls of one environment entry, in the order the loop body makes them
EnvSteps(p, envName) ==
    LET nsName == NsName(ProjectName, envName, p.envs[envName]) IN
    <<[kind |-> "ns", env |-> envName, ns |-> nsName]>>
    \o (IF p.envs[envName].quota
        THEN <<[kind |-> "quota", env |-> envName, ns |-> nsName]>> ELSE <<>>)
    \o (IF p.envs[envName].limit
        THEN <<[kind |-> "limit", env |-> envName, ns |-> nsName]>> ELSE <<>>)

RECURSIVE AllSteps(_, _)
AllSteps(p, order) ==
    IF Len(order) = 0 THEN <<>>
    ELSE EnvSteps(p, Head(order)) \o AllSteps(p, Tail(order))

\* one successful child upsert: reconcileNamespace, reconcileResourceQuota or
\* reconcileLimitRange (each ends in exactly one Create or Update call)
ApplyStep(st, step) ==
    IF step.kind = "ns"
    THEN [st EXCEPT !.ns[step.ns] = reconcileNamespace(st.ns[step.ns], ProjectName, step.env)]
    ELSE IF step.kind = "quota"
    THEN [st EXCEPT !.quotas = st.quotas \cup {step.ns}]
    ELSE [st EXCEPT !.limits = st.limits \cup {step.ns}]

RECURSIVE ApplySteps(_, _, _)
ApplySteps(st, steps, k) ==
    IF k = 0 THEN st
    ELSE ApplyStep(ApplySteps(st, steps, k - 1), steps[k])

StepsAppliedPastFailure(fp, n) == n

\* the loop returns at the first upsert that fails: of n upserts, those before the
\* fp-th have taken effect (fp = 0: none fails)
StepsApplied(fp, n) == IF fp = 0 THEN n ELSE fp - 1

CreatedNamespacesByDefaultName(p, order) ==
    [i \in 1..Len(order) |-> DefaultNsName(ProjectName, order[i])]

\* createdNamespaces = append(createdNamespaces, nsName), once per entry
CreatedNamespaces(p, order) ==
    [i \in 1..Len(order) |-> NsName(ProjectName, order[i], p.envs[order[i]])]

\* the number of write calls (Create or Update) a reconcile issues on child
\* objects when its first k steps succeed
ChildWritesIssued(k) == k

\* the text of an API error as %v prints it
ApiErrorText == "api error"

\* the message Reconcile hands to setFailedStatus when a child upsert fails
ChildFailureMessage(step) ==
    (IF step.kind = "ns" THEN "Failed to create namespace "
     ELSE IF step.kind = "quota" THEN "Failed to create ResourceQuota in "
     ELSE "Failed to create LimitRange in ")
    \o step.ns \o ": " \o ApiErrorText

setFailedStatusProjectNoMessage(p, message) ==
    [p EXCEPT !.phase = ProjectPhaseFailed, !.condReady = "False"]

setFailedStatusProject(p, message) ==
    [p EXCEPT !.phase = ProjectPhaseFailed, !.condReady = "False",
              !.condReadyMessage = message]

\* a namespace removed by Delete takes the objects in it with it
DeleteNamespace(st, n) ==
    [st EXCEPT !.ns[n] = NoNamespace, !.quotas = st.quotas \ {n},
               !.limits = st.limits \ {n}]

ManagedByAnyProject(ns, projName) == TRUE

\* reconcileDelete's check before Delete: ns.Labels[ProjectLabelKey] == project.Name
ManagedByThisProject(ns, projName) == ns.project = projName

\* reconcileDelete's loop over Status.CreatedNamespaces, its first k entries:
\* NotFound is skipped, a namespace of another project is skipped, the rest are
\* deleted.  The Get or the Delete of entry fp fails (fp = 0: none does), which
\* leaves that namespace as it is.
RECURSIVE Cleanup(_, _, _, _)
Cleanup(st, created, k, fp) ==
    IF k = 0 THEN [st |-> st, deletes |-> {}]
    ELSE LET prev == Cleanup(st, created, k - 1, fp)
             n == created[k]
         IN IF k # fp /\ prev.st.ns[n].exists
                      /\ ManagedByThisProject(prev.st.ns[n], ProjectName)
            THEN [st |-> DeleteNamespace(prev.st, n), deletes |-> prev.deletes \cup {n}]
            ELSE prev

CleanupIgnoresError(failed) == FALSE

\* reconcileDelete returns the error of a failed Get or Delete at once
CleanupAborts(failed) == failed

-----------------------------------------------------------------------------
(* The users and the other actors on the store *)

UserCreateProject ==
    /\ ~project.exists
    /\ \E envs \in EnvironmentMaps :
          project' = [NoProject EXCEPT !.exists = TRUE, !.envs = envs]
    /\ queue' = queue \cup {"project"}
    /\ last' = NoLast
    /\ UNCHANGED <<namespaces, quotas, limits, appVars, serverVars>>

UserEditProject ==
    /\ project.exists /\ ~project.deleting
    /\ \E envs \in EnvironmentMaps :
          /\ envs # project.envs
          /\ project' = [project EXCEPT !.envs = envs]
    /\ queue' = queue \cup {"project"}
    /\ last' = NoLast
    /\ UNCHANGED <<namespaces, quotas, limits, appVars, serverVars>>

\* delete sets the deletion timestamp; an object without finalizers goes at once
UserDeleteProject ==
    /\ project.exists /\ ~project.deleting
    /\ project' = IF project.finalizers = {} THEN NoProject
                  ELSE [project EXCEPT !.deleting = TRUE]
    /\ queue' = queue \cup {"project"}
    /\ last' = NoLast
    /\ UNCHANGED <<namespaces, quotas, limits, appVars, serverVars>>

\* an event for the project that changes nothing the model holds (a metadata
\* edit, a resync, a restart of the controller)
ProjectEvent ==
    /\ project.exists /\ "project" \notin queue
    /\ queue' = queue \cup {"project"}
    /\ last' = NoLast
    /\ UNCHANGED <<projectVars, appVars, serverVars>>

ExternalRelabelNamespace ==
    /\ \E n \in NsNames :
          /\ namespaces[n].exists /\ namespaces[n].project = ProjectName
          /\ namespaces' = [namespaces EXCEPT ![n].project = OtherProject]
    /\ last' = NoLast
    /\ UNCHANGED <<project, quotas, limits, appVars, serverVars, queue>>

ExternalLabelsNamespace ==
    /\ \E n \in NsNames :
          /\ namespaces[n].exists /\ ForeignLabel \notin namespaces[n].otherLabels
          /\ namespaces' = [namespaces EXCEPT ![n].otherLabels = @ \cup {ForeignLabel}]
    /\ last' = NoLast
    /\ UNCHANGED <<project, quotas, limits, appVars, serverVars, queue>>

ExternalCreateNamespace ==
    /\ \E n \in NsNames :
          /\ ~namespaces[n].exists
          /\ namespaces' = [namespaces EXCEPT ![n] = [NoNamespace EXCEPT !.exists = TRUE]]
    /\ last' = NoLast
    /\ UNCHANGED <<project, quotas, limits, appVars, serverVars, queue>>

ExternalDeleteNamespace ==
    /\ \E n \in NsNames :
          /\ namespaces[n].exists
          /\ LET st == DeleteNamespace(ChildStore, n) IN
                /\ namespaces' = st.ns
                /\ quotas' = st.quotas
                /\ limits' = st.limits
    /\ last' = NoLast
    /\ UNCHANGED <<project, appVars, serverVars, queue>>

-----------------------------------------------------------------------------
(* KalypsoProjectReconciler.Reconcile, one action per branch *)

\* Get fails: NotFound returns nil, any other error is returned
ProjectNotFound ==
    /\ "project" \in queue
    /\ ~project.exists
    /\ last' = Returned("project", "notfound", FALSE, 0, "nil")
    /\ queue' = AfterReconcile("project", last', FALSE)
    /\ UNCHANGED <<projectVars, appVars, serverVars>>

ProjectAddFinalizer ==
    /\ "project" \in queue
    /\ project.exists /\ ~project.deleting
    /\ FinalizerName \notin project.finalizers
    /\ \E o \in WriteOutcomes :
          /\ project' = IF o = "ok"
                        THEN [project EXCEPT !.finalizers = @ \cup {FinalizerName}]
                        ELSE project
          /\ last' = [Returned("project", "finalizer", o = "ok", 0,
                               IF o = "ok" THEN "nil" ELSE o)
                      EXCEPT !.failed = IF o = "ok" THEN "" ELSE "update",
                             !.ownWrite = o]
    /\ queue' = AfterReconcile("project", last', project' # project)
    /\ UNCHANGED <<namespaces, quotas, limits, appVars, serverVars>>

ProjectInitPhaseFromAnyPhase ==
    /\ "project" \in queue
    /\ project.exists /\ ~project.deleting
    /\ FinalizerName \in project.finalizers
    /\ project.phase # ProjectPhaseProvisioning
    /\ \E o \in WriteOutcomes :
          /\ project' = IF o = "ok"
                        THEN [project EXCEPT !.phase = ProjectPhaseProvisioning]
                        ELSE project
          /\ last' = [Returned("project", "initphase", o = "ok", 0,
                               IF o = "ok" THEN "nil" ELSE o)
                      EXCEPT !.failed = IF o = "ok" THEN "" ELSE "status",
                             !.ownWrite = o,
                             !.phaseSet = ProjectPhaseProvisioning]
    /\ queue' = AfterReconcile("project", last', project' # project)
    /\ UNCHANGED <<namespaces, quotas, limits, appVars, serverVars>>

ProjectInitPhase ==
    /\ "project" \in queue
    /\ project.exists /\ ~project.deleting
    /\ FinalizerName \in project.finalizers
    /\ project.phase = ""
    /\ \E o \in WriteOutcomes :
          /\ project' = IF o = "ok"
                        THEN [project EXCEPT !.phase = ProjectPhaseProvisioning]
                        ELSE project
          /\ last' = [Returned("project", "initphase", o = "ok", 0,
                               IF o = "ok" THEN "nil" ELSE o)
                      EXCEPT !.failed = IF o = "ok" THEN "" ELSE "status",
                             !.ownWrite = o,
                             !.phaseSet = ProjectPhaseProvisioning]
    /\ queue' = AfterReconcile("project", last', project' # project)
    /\ UNCHANGED <<namespaces, quotas, limits, appVars, serverVars>>

\* the loop over Spec.Environments and the status write that ends the reconcile.
\* fp = 0: every child upsert succeeds; fp = k: the k-th upsert fails
ProjectReconcileEnvs ==
    /\ "project" \in queue
    /\ project.exists /\ ~project.deleting
    /\ FinalizerName \in project.finalizers
    /\ project.phase # ""
    /\ \E order \in Orders(DOMAIN project.envs), so \in WriteOutcomes :
          LET steps == AllSteps(project, order) IN
          \E fp \in 0..Len(steps) :
             LET applied == StepsApplied(fp, Len(steps))
                 st == ApplySteps(ChildStore, steps, applied)
                 ready == [project EXCEPT !.phase = ProjectPhaseReady,
                                          !.created = CreatedNamespaces(project, order),
                                          !.condNamespaceCreated = "True"]
             IN /\ namespaces' = st.ns
                /\ quotas' = st.quotas
                /\ limits' = st.limits
                /\ project' = IF so # "ok" THEN project
                              ELSE IF fp # 0
                              THEN setFailedStatusProject(project,
                                                          ChildFailureMessage(steps[fp]))
                              ELSE ready
                /\ last' = [Returned("project", "envs", FALSE, 0,
                                     IF fp # 0 THEN "apierror"
                                     ELSE IF so = "ok" THEN "nil" ELSE so)
                            EXCEPT !.writes = ChildWritesIssued(applied),
                                   !.failed = IF fp # 0 THEN steps[fp].kind
                                              ELSE IF so = "ok" THEN "" ELSE "status",
                                   \* setFailedStatus drops the error of its write
                                   !.ownWrite = IF so = "ok" THEN "ok"
                                                   ELSE IF fp # 0 THEN "dropped" ELSE so,
                                   !.phaseSet = IF fp # 0 THEN ProjectPhaseFailed
                                                ELSE ProjectPhaseReady,
                                   !.message = IF fp # 0 THEN ChildFailureMessage(steps[fp])
                                               ELSE ""]
    /\ queue' = AfterReconcile("project", last', project' # project)
    /\ UNCHANGED <<appVars, serverVars>>

\* reconcileDelete. fp = 0: no Get or Delete fails; fp = k: the Get (fkind "get")
\* or the Delete (fkind "delete") of the k-th listed namespace fails
ProjectReconcileDelete ==
    /\ "project" \in queue
    /\ project.exists /\ project.deleting
    /\ \E fp \in 0..Len(project.created), fkind \in {"get", "delete"}, uo \in WriteOutcomes :
          LET n == Len(project.created)
              aborted == CleanupAborts(fp # 0)
              c == Cleanup(ChildStore, project.created, IF aborted THEN fp - 1 ELSE n, fp)
              target == IF fp = 0 THEN NoNamespace ELSE c.st.ns[project.created[fp]]
              \* a Delete is issued only for a namespace that passed the label check
              failedDelete == fp # 0 /\ fkind = "delete"
              issued == c.deletes \cup (IF failedDelete THEN {project.created[fp]} ELSE {})
              released == [project EXCEPT !.finalizers = @ \ {FinalizerName}]
          IN /\ fp = 0 => fkind = "get"
             /\ failedDelete =>
                   target.exists /\ ManagedByThisProject(target, ProjectName)
             /\ namespaces' = c.st.ns
             /\ quotas' = c.st.quotas
             /\ limits' = c.st.limits
             /\ IF aborted
                THEN /\ project' = project
                     /\ last' = [Returned("project", "delete", FALSE, 0, "apierror")
                                 EXCEPT !.failed = fkind, !.deletes = issued]
                ELSE /\ project' = IF uo # "ok" THEN project
                                   ELSE IF released.finalizers = {} THEN NoProject
                                   ELSE released
                     /\ last' = [Returned("project", "delete", FALSE, 0,
                                          IF uo = "ok" THEN "nil" ELSE uo)
                                 EXCEPT !.failed = IF uo = "ok" THEN "" ELSE "update",
                                        !.ownWrite = uo,
                                        !.deletes = issued]
    /\ queue' = AfterReconcile("project", last', project' # project)
    /\ UNCHANGED <<appVars, serverVars>>

-----------------------------------------------------------------------------
(* KalypsoApplication *)

GhostProject == "p0"

\* Spec.Storage of an Application: nil, or a secret name with an endpoint
NoStorage == [set |-> FALSE, secretName |-> "", endpoint |-> "", region |-> ""]
S3Storage ==
    [set |-> TRUE, secretName |-> "aws-s3-credentials", endpoint |-> "http://minio:9000",
     region |-> ""]
StorageChoices == {NoStorage, S3Storage}

NoApp ==
    [exists |-> FALSE, deleting |-> FALSE, finalizers |-> {}, phase |-> "",
     projectRef |-> "", storage |-> NoStorage,
     activeModels |-> 0, gatewayEndpoint |-> "",
     condProjectReady |-> "", condReady |-> "", condReadyMessage |-> ""]

\* r.Get of the Project named Spec.ProjectRef in the Application's namespace
ProjectFound(a) == project.exists /\ a.projectRef = ProjectName

ProjectHasPhase(p) == p.phase # ""

\* project.Status.Phase != ProjectPhaseReady sends the reconcile to the wait branch
ProjectIsReady(p) == p.phase = ProjectPhaseReady

ProjectNotFoundMessage(ref) == "KalypsoProject '" \o ref \o "' not found"

GatewayEndpointInNamespace(name) ==
    "http://istio-gateway.istio-system.svc/kalypso-system/" \o name

GatewayEndpoint(name) == "http://istio-gateway.istio-system.svc/" \o name

setFailedStatusAppKeepsPhase(a, message) ==
    [a EXCEPT !.condReady = "False", !.condReadyMessage = message]

setFailedStatusApp(a, message) ==
    [a EXCEPT !.phase = ApplicationPhaseFailed, !.condReady = "False",
              !.condReadyMessage = message]

-----------------------------------------------------------------------------
(* The users of Applications, and the Project as the Application sees it *)

UserCreateApp ==
    /\ ~app.exists
    /\ \E ref \in {ProjectName, GhostProject}, st \in StorageChoices :
          app' = [NoApp EXCEPT !.exists = TRUE, !.projectRef = ref, !.storage = st]
    /\ queue' = queue \cup {"app"}
    /\ last' = NoLast
    /\ UNCHANGED <<projectVars, serverVars>>

UserDeleteApp ==
    /\ app.exists /\ ~app.deleting
    /\ app' = IF app.finalizers = {} THEN NoApp ELSE [app EXCEPT !.deleting = TRUE]
    /\ queue' = queue \cup {"app"}
    /\ last' = NoLast
    /\ UNCHANGED <<projectVars, serverVars>>

\* an event for the application that changes nothing the model holds
AppEvent ==
    /\ app.exists /\ "app" \notin queue
    /\ queue' = queue \cup {"app"}
    /\ last' = NoLast
    /\ UNCHANGED <<projectVars, appVars, serverVars>>

\* The Project as its own reconciler and its user leave it: absent, or present in
\* one of its phases.  The Application controller watches Applications only, so
\* no change of the Project puts the Application in the queue.
ProjectStatusChanges ==
    /\ \E present \in BOOLEAN,
          ph \in {"", ProjectPhaseProvisioning, ProjectPhaseReady, ProjectPhaseFailed} :
          /\ project' = IF present
                        THEN [NoProject EXCEPT !.exists = TRUE, !.phase = ph,
                                 !.finalizers = IF ph = "" THEN {} ELSE {FinalizerName}]
                        ELSE NoProject
          /\ project' # project
    /\ last' = NoLast
    /\ UNCHANGED <<namespaces, quotas, limits, appVars, serverVars, queue>>

-----------------------------------------------------------------------------
(* KalypsoApplicationReconciler.Reconcile, one action per branch *)

AppNotFound ==
    /\ "app" \in queue
    /\ ~app.exists
    /\ last' = Returned("app", "notfound", FALSE, 0, "nil")
    /\ queue' = AfterReconcile("app", last', FALSE)
    /\ UNCHANGED <<projectVars, appVars, serverVars>>

AppReconcileDeleteWaitsForServers ==
    /\ "app" \in queue
    /\ app.exists /\ app.deleting
    /\ \E uo \in WriteOutcomes :
          LET released == [app EXCEPT !.finalizers = @ \ {ApplicationFinalizerName}]
              held == server.exists /\ server.applicationRef = "a1"
          IN
          /\ app' = IF uo # "ok" \/ held THEN app
                    ELSE IF released.finalizers = {} THEN NoApp ELSE released
          /\ last' = [Returned("app", "delete", uo = "conflict" \/ held, 0,
                               IF uo = "apierror" THEN uo ELSE "nil")
                      EXCEPT !.failed = IF uo = "ok" THEN "" ELSE "update",
                             !.ownWrite = uo]
    /\ queue' = AfterReconcile("app", last', app' # app)
    /\ UNCHANGED <<projectVars, serverVars>>

\* reconcileDelete: remove the finalizer; a conflict asks for a requeue
AppReconcileDelete ==
    /\ "app" \in queue
    /\ app.exists /\ app.deleting
    /\ \E uo \in WriteOutcomes :
          LET released == [app EXCEPT !.finalizers = @ \ {ApplicationFinalizerName}] IN
          /\ app' = IF uo # "ok" THEN app
                    ELSE IF released.finalizers = {} THEN NoApp ELSE released
          /\ last' = [Returned("app", "delete", uo = "conflict", 0,
                               IF uo = "apierror" THEN uo ELSE "nil")
                      EXCEPT !.failed = IF uo = "ok" THEN "" ELSE "update",
                             !.ownWrite = uo]
    /\ queue' = AfterReconcile("app", last', app' # app)
    /\ UNCHANGED <<projectVars, serverVars>>

AppAddFinalizer ==
    /\ "app" \in queue
    /\ app.exists /\ ~app.deleting
    /\ ApplicationFinalizerName \notin app.finalizers
    /\ \E o \in WriteOutcomes :
          /\ app' = IF o = "ok"
                    THEN [app EXCEPT !.finalizers = @ \cup {ApplicationFinalizerName}]
                    ELSE app
          /\ last' = [Returned("app", "finalizer", o = "ok", 0,
                               IF o = "ok" THEN "nil" ELSE o)
                      EXCEPT !.failed = IF o = "ok" THEN "" ELSE "update",
                             !.ownWrite = o]
    /\ queue' = AfterReconcile("app", last', app' # app)
    /\ UNCHANGED <<projectVars, serverVars>>

AppInitPhase ==
    /\ "app" \in queue
    /\ app.exists /\ ~app.deleting
    /\ ApplicationFinalizerName \in app.finalizers
    /\ app.phase = ""
    /\ \E o \in WriteOutcomes :
          /\ app' = IF o = "ok" THEN [app EXCEPT !.phase = ApplicationPhasePending]
                    ELSE app
          /\ last' = [Returned("app", "initphase", o = "ok", 0,
                               IF o = "ok" THEN "nil" ELSE o)
                      EXCEPT !.failed = IF o = "ok" THEN "" ELSE "status",
                             !.ownWrite = o,
                             !.phaseSet = ApplicationPhasePending]
    /\ queue' = AfterReconcile("app", last', app' # app)
    /\ UNCHANGED <<projectVars, serverVars>>

\* past the finalizer and the initial phase: the reconcile looks at the Project
AppValidates ==
    /\ "app" \in queue
    /\ app.exists /\ ~app.deleting
    /\ ApplicationFinalizerName \in app.finalizers
    /\ app.phase # ""

\* the Get of the Project, or a re-fetch of the Application, fails with an error
\* that is not NotFound: the error is returned
AppGetFailed ==
    /\ AppValidates
    /\ last' = [Returned("app", "getFailed", FALSE, 0, "apierror") EXCEPT !.failed = "get"]
    /\ queue' = AfterReconcile("app", last', FALSE)
    /\ UNCHANGED <<projectVars, appVars, serverVars>>

\* the Project is not found: setFailedStatus (its write error dropped), then
\* RequeueAfter 30 s and no error
AppProjectMissing ==
    /\ AppValidates
    /\ ~ProjectFound(app)
    /\ \E sf \in WriteOutcomes :
          LET message == ProjectNotFoundMessage(app.projectRef) IN
          /\ app' = IF sf = "ok" THEN setFailedStatusApp(app, message) ELSE app
          /\ last' = [Returned("app", "projectMissing", FALSE,
                               MissingParentRequeueSeconds, "nil")
                      EXCEPT !.ownWrite = IF sf = "ok" THEN "ok" ELSE "dropped",
                             !.phaseSet = setFailedStatusApp(app, message).phase,
                             !.message = message]
    /\ queue' = AfterReconcile("app", last', app' # app)
    /\ UNCHANGED <<projectVars, serverVars>>

\* the Project is found in a phase other than Ready: re-fetch, condition
\* ProjectReady=False, status write, RequeueAfter 10 s
AppProjectNotReady ==
    /\ AppValidates
    /\ ProjectFound(app)
    /\ ~ProjectIsReady(project)
    /\ \E so \in WriteOutcomes :
          /\ app' = IF so = "ok" THEN [app EXCEPT !.condProjectReady = "False"] ELSE app
          /\ last' = [Returned("app", "projectNotReady", so = "conflict",
                               IF so = "ok" THEN NotReadyRequeueSeconds ELSE 0,
                               IF so = "apierror" THEN so ELSE "nil")
                      EXCEPT !.failed = IF so = "ok" THEN "" ELSE "status",
                             !.ownWrite = so]
    /\ queue' = AfterReconcile("app", last', app' # app)
    /\ UNCHANGED <<projectVars, serverVars>>

\* countActiveTritonServers: the servers of the namespace whose applicationRef
\* is the Application's name; a failed List counts 0 and is only logged
countActiveTritonServers(listed) ==
    IF listed /\ server.exists /\ server.applicationRef = AppName THEN 1 ELSE 0

\* the Project is Ready: count the servers, re-fetch, phase Ready with the count,
\* the gateway endpoint and both conditions, status write
AppReady ==
    /\ AppValidates
    /\ ProjectFound(app)
    /\ ProjectIsReady(project)
    /\ \E so \in WriteOutcomes, listed \in BOOLEAN :
          /\ app' = IF so = "ok"
                    THEN [app EXCEPT !.phase = ApplicationPhaseReady,
                                     !.activeModels = countActiveTritonServers(listed),
                                     !.gatewayEndpoint = GatewayEndpoint(AppName),
                                     !.condProjectReady = "True",
                                     !.condReady = "True",
                                     !.condReadyMessage = "KalypsoApplication is ready to serve"]
                    ELSE app
          /\ last' = [Returned("app", "ready", so = "conflict", 0,
                               IF so = "apierror" THEN so ELSE "nil")
                      EXCEPT !.failed = IF so = "ok" THEN "" ELSE "status",
                             !.ownWrite = so,
                             !.phaseSet = ApplicationPhaseReady,
                             !.listFailed = ~listed]
    /\ queue' = AfterReconcile("app", last', app' # app)
    /\ UNCHANGED <<projectVars, serverVars>>

-----------------------------------------------------------------------------
(* KalypsoTritonServer *)

GhostApp == "a0"
TritonServerLabelKey == "kalypso-serving.io/tritonserver"
Namespace == "kalypso-system"

DefaultHttpPort == 8000
DefaultGrpcPort == 8001
DefaultMetricsPort == 8002
DefaultReplicas == 1

\* The observability block of a server's spec; present = FALSE is a nil block
NoObservability ==
    [present |-> FALSE, enabled |-> FALSE, collectorEndpoint |-> "",
     logging |-> [enabled |-> FALSE, level |-> ""],
     tracing |-> [enabled |-> FALSE, samplingRate |-> ""],
     profiling |-> [enabled |-> FALSE, cpu |-> FALSE, memory |-> FALSE],
     metrics |-> [enabled |-> FALSE, interval |-> "", enableServiceMonitor |-> FALSE]]

LoggingLevels == {"VERBOSE", "INFO", "WARNING", "ERROR"}

LoggingChoices ==
    {[enabled |-> FALSE, level |-> ""]}
    \cup {[enabled |-> TRUE, level |-> l] : l \in LoggingLevels}

TracingChoices ==
    {[enabled |-> FALSE, samplingRate |-> ""],
     [enabled |-> TRUE, samplingRate |-> "0.5"],
     [enabled |-> TRUE, samplingRate |-> "0.1"]}

ProfilingChoices ==
    {[enabled |-> FALSE, cpu |-> FALSE, memory |-> FALSE]}
    \cup {[enabled |-> TRUE, cpu |-> c, memory |-> m] : c \in BOOLEAN, m \in BOOLEAN}

MetricsChoices ==
    {[enabled |-> en, interval |-> iv, enableServiceMonitor |-> sm] :
        en \in BOOLEAN, iv \in {"15s", "30s"}, sm \in BOOLEAN}

ObservabilityChoices ==
    {NoObservability}
    \cup {[present |-> TRUE, enabled |-> en, collectorEndpoint |-> "http://tempo:4317",
           logging |-> lg, tracing |-> tr, profiling |-> pf,
           metrics |-> NoObservability.metrics] :
             en \in BOOLEAN, lg \in LoggingChoices, tr \in TracingChoices,
             pf \in ProfilingChoices}

\* the blocks that differ in their metrics part only
MetricsObservabilityChoices ==
    {[NoObservability EXCEPT !.present = TRUE, !.enabled = en, !.metrics = mt] :
        en \in BOOLEAN, mt \in MetricsChoices}

\* Spec of a server; 0 and "" stand for a field left unset (nil)
DefaultServerSpec ==
    [replicas |-> 0, storageUri |-> "s3://models/default", image |-> "", tag |-> "",
     parameters |-> <<>>, httpPort |-> 0, grpcPort |-> 0, metricsPort |-> 0,
     observability |-> NoObservability]
CustomServerSpec ==
    [replicas |-> MaxReplicas, storageUri |-> "s3://models/custom",
     image |-> "registry.local/triton", tag |-> "v1",
     parameters |-> <<[name |-> "exit-timeout-secs", value |-> "5"],
                      [name |-> "strict-readiness", value |-> "true"]>>,
     httpPort |-> 9000, grpcPort |-> 0, metricsPort |-> 0,
     observability |-> NoObservability]
ServerSpecChoices == {DefaultServerSpec, CustomServerSpec}

\* a spec whose networking block sets the gRPC and metrics ports only
NetworkedServerSpec == [DefaultServerSpec EXCEPT !.grpcPort = 9001, !.metricsPort = 9002]

NoServer ==
    [exists |-> FALSE, deleting |-> FALSE, finalizers |-> {}, phase |-> "",
     applicationRef |-> "", spec |-> DefaultServerSpec,
     deploymentName |-> "", serviceEndpoint |-> "", availableReplicas |-> 0,
     message |-> "", condAvailable |-> ""]

NoAnnotations == [cpuScrape |-> "", memoryScrape |-> "", serviceName |-> ""]

NoWorkload == [replicas |-> 0, image |-> "", args |-> <<>>, env |-> <<>>, envFrom |-> <<>>,
               ports |-> <<>>, readinessProbePort |-> 0, livenessProbePort |-> 0,
               annotations |-> NoAnnotations]
NoDeployment ==
    [exists |-> FALSE, name |-> "", spec |-> NoWorkload,
     labels |-> [tritonserver |-> "", application |-> "", managedBy |-> ""],
     otherLabels |-> {}, owner |-> "", availableReplicas |-> 0]

NoService ==
    [exists |-> FALSE, name |-> "", ports |-> <<>>, selector |-> {}, type |-> "",
     labels |-> [tritonserver |-> "", application |-> "", managedBy |-> ""],
     otherLabels |-> {}, owner |-> "", clusterIP |-> ""]

NoMonitor == [exists |-> FALSE, name |-> "", interval |-> "", owner |-> ""]

DeploymentNamedAsService(name) == name \o "-svc"

DeploymentName(name) == name \o "-deploy"
ServiceName(name) == name \o "-svc"

ApplicationFoundWhateverName(srv) == app.exists

\* r.Get of the Application named Spec.ApplicationRef in the server's namespace
ApplicationFoundAndReady(srv) ==
    app.exists /\ srv.applicationRef = AppName /\ app.phase = ApplicationPhaseReady

ApplicationFound(srv) == app.exists /\ srv.applicationRef = AppName

ApplicationNotFoundMessageNoName(ref) == "KalypsoApplication not found"

ApplicationNotFoundMessage(ref) == "KalypsoApplication '" \o ref \o "' not found"

HttpPort(sp) == IF sp.httpPort # 0 THEN sp.httpPort ELSE DefaultHttpPort
GrpcPort(sp) == IF sp.grpcPort # 0 THEN sp.grpcPort ELSE DefaultGrpcPort
MetricsPort(sp) == IF sp.metricsPort # 0 THEN sp.metricsPort ELSE DefaultMetricsPort

ManagedLabels(srv) ==
    [tritonserver |-> ServerName, application |-> srv.applicationRef,
     managedBy |-> ManagedByLabelValue]

ContainerArgsParametersReversed(sp) ==
    <<"tritonserver", "--model-repository=" \o sp.storageUri>>
    \o [i \in 1..Len(sp.parameters) |->
           "--" \o sp.parameters[Len(sp.parameters) + 1 - i].name
           \o "=" \o sp.parameters[Len(sp.parameters) + 1 - i].value]

\* args: the process name, the model repository, one flag per parameter
ContainerArgs(sp) ==
    <<"tritonserver", "--model-repository=" \o sp.storageUri>>
    \o [i \in 1..Len(sp.parameters) |->
           "--" \o sp.parameters[i].name \o "=" \o sp.parameters[i].value]

\* the observability block takes effect when it is there and globally enabled
ObservabilityOn(o) == o.present /\ o.enabled

LoggingArgsOneLower(o) ==
    IF ~(ObservabilityOn(o) /\ o.logging.enabled) THEN <<>>
    ELSE IF o.logging.level = "VERBOSE" THEN <<"--log-info=true">>
    ELSE IF o.logging.level = "INFO" THEN <<"--log-warning=true">>
    ELSE IF o.logging.level = "WARNING" THEN <<"--log-error=true">>
    ELSE <<>>

\* the flag of the logging level
LoggingArgs(o) ==
    IF ~(ObservabilityOn(o) /\ o.logging.enabled) THEN <<>>
    ELSE IF o.logging.level = "VERBOSE" THEN <<"--log-verbose=1">>
    ELSE IF o.logging.level = "INFO" THEN <<"--log-info=true">>
    ELSE IF o.logging.level = "WARNING" THEN <<"--log-warning=true">>
    ELSE IF o.logging.level = "ERROR" THEN <<"--log-error=true">>
    ELSE <<>>

TracingArgsRateFirst(o) ==
    IF ~(ObservabilityOn(o) /\ o.tracing.enabled) THEN <<>>
    ELSE <<"--trace-config=mode=opentelemetry,rate=" \o o.tracing.samplingRate
           \o ",url=" \o o.collectorEndpoint>>

\* the one flag that carries the trace mode, the collector and the sampling rate
TracingArgs(o) ==
    IF ~(ObservabilityOn(o) /\ o.tracing.enabled) THEN <<>>
    ELSE <<"--trace-config=mode=opentelemetry,url=" \o o.collectorEndpoint
           \o ",rate=" \o o.tracing.samplingRate>>

\* the flags appended after the runtime parameters
ObservabilityArgs(o) == LoggingArgs(o) \o TracingArgs(o)

ProfilingAnnotationsNoName(o, name) ==
    IF ~(ObservabilityOn(o) /\ o.profiling.enabled) THEN NoAnnotations
    ELSE [cpuScrape |-> IF o.profiling.cpu THEN "true" ELSE "",
          memoryScrape |-> IF o.profiling.memory THEN "true" ELSE "",
          serviceName |-> ""]

\* the pod-template annotations profiles.grafana.com/cpu.scrape, /memory.scrape
\* and /service_name
ProfilingAnnotations(o, name) ==
    IF ~(ObservabilityOn(o) /\ o.profiling.enabled) THEN NoAnnotations
    ELSE [cpuScrape |-> IF o.profiling.cpu THEN "true" ELSE "",
          memoryScrape |-> IF o.profiling.memory THEN "true" ELSE "",
          serviceName |-> name]

\* environment from the Application's storage block
ContainerEnv(a) ==
    IF ~a.storage.set THEN <<>>
    ELSE (IF a.storage.endpoint # ""
          THEN <<[name |-> "AWS_ENDPOINT_URL", value |-> a.storage.endpoint],
                 [name |-> "S3_ENDPOINT", value |-> a.storage.endpoint]>>
          ELSE <<>>)
         \o (IF a.storage.region # ""
             THEN <<[name |-> "AWS_DEFAULT_REGION", value |-> a.storage.region]>>
             ELSE <<>>)

ContainerEnvFrom(a) ==
    IF a.storage.set /\ a.storage.secretName # "" THEN <<a.storage.secretName>> ELSE <<>>

\* the Deployment spec that reconcileDeployment's mutate function writes
DesiredWorkload(srv, a) ==
    [replicas |-> IF srv.spec.replicas # 0 THEN srv.spec.replicas ELSE DefaultReplicas,
     image |-> (IF srv.spec.image # "" THEN srv.spec.image ELSE "nvcr.io/nvidia/tritonserver")
               \o ":" \o (IF srv.spec.tag # "" THEN srv.spec.tag ELSE "24.12-py3"),
     args |-> ContainerArgs(srv.spec) \o ObservabilityArgs(srv.spec.observability),
     annotations |-> ProfilingAnnotations(srv.spec.observability, ServerName),
     env |-> ContainerEnv(a),
     envFrom |-> ContainerEnvFrom(a),
     ports |-> <<[name |-> "http", port |-> HttpPort(srv.spec)],
                 [name |-> "grpc", port |-> GrpcPort(srv.spec)],
                 [name |-> "metrics", port |-> MetricsPort(srv.spec)]>>,
     readinessProbePort |-> HttpPort(srv.spec),
     livenessProbePort |-> HttpPort(srv.spec)]

\* controllerutil.CreateOrUpdate on the Deployment: Create when absent, else the
\* mutate function over the object read; Update only if that changed it
reconcileDeployment(d, srv, a) ==
    [d EXCEPT !.exists = TRUE, !.name = DeploymentName(ServerName),
              !.spec = DesiredWorkload(srv, a),
              !.labels = ManagedLabels(srv), !.owner = ServerName]

reconcileServiceFromScratch(sv, srv) ==
    [NoService EXCEPT !.exists = TRUE, !.name = ServiceName(ServerName),
               !.ports = <<[name |-> "http", port |-> HttpPort(srv.spec)],
                           [name |-> "grpc", port |-> GrpcPort(srv.spec)],
                           [name |-> "metrics", port |-> MetricsPort(srv.spec)]>>,
               !.selector = {<<TritonServerLabelKey, ServerName>>}, !.type = "ClusterIP",
               !.labels = ManagedLabels(srv), !.owner = ServerName]

reconcileServiceOnDefaultPorts(sv, srv) ==
    [sv EXCEPT !.exists = TRUE, !.name = ServiceName(ServerName),
               !.ports = <<[name |-> "http", port |-> DefaultHttpPort],
                           [name |-> "grpc", port |-> DefaultGrpcPort],
                           [name |-> "metrics", port |-> DefaultMetricsPort]>>,
               !.selector = {<<TritonServerLabelKey, ServerName>>}, !.type = "ClusterIP",
               !.labels = ManagedLabels(srv), !.owner = ServerName,
               !.clusterIP = IF sv.exists THEN sv.clusterIP ELSE "10.96.0.10"]

\* controllerutil.CreateOrUpdate on the Service; the cluster IP is given by the
\* platform at Create and not touched by the mutate function
reconcileService(sv, srv) ==
    [sv EXCEPT !.exists = TRUE, !.name = ServiceName(ServerName),
               !.ports = <<[name |-> "http", port |-> HttpPort(srv.spec)],
                           [name |-> "grpc", port |-> GrpcPort(srv.spec)],
                           [name |-> "metrics", port |-> MetricsPort(srv.spec)]>>,
               !.selector = {<<TritonServerLabelKey, ServerName>>}, !.type = "ClusterIP",
               !.labels = ManagedLabels(srv), !.owner = ServerName,
               !.clusterIP = IF sv.exists THEN sv.clusterIP ELSE "10.96.0.10"]

MonitorName(name) == name \o "-monitor"

ServiceMonitorWanted(o) ==
    ObservabilityOn(o) /\ o.metrics.enabled /\ o.metrics.enableServiceMonitor

reconcileServiceMonitorDefaultInterval(m, srv) ==
    IF ~ServiceMonitorWanted(srv.spec.observability) THEN m
    ELSE [m EXCEPT !.exists = TRUE, !.name = MonitorName(ServerName),
                   !.interval = "15s", !.owner = ServerName]

\* the upsert of the ServiceMonitor that scrapes the server at the interval of
\* its metrics block; nothing is done when the block does not ask for one
reconcileServiceMonitor(m, srv) ==
    IF ~ServiceMonitorWanted(srv.spec.observability) THEN m
    ELSE [m EXCEPT !.exists = TRUE, !.name = MonitorName(ServerName),
                   !.interval = srv.spec.observability.metrics.interval,
                   !.owner = ServerName]

ServiceEndpoint(srv) ==
    "http://" \o ServiceName(ServerName) \o "." \o Namespace \o ".svc:"
    \o ToString(HttpPort(srv.spec))

setFailedStatusServer(srv, message) ==
    [srv EXCEPT !.phase = TritonServerPhaseFailed, !.message = message,
                !.condAvailable = "False"]

IsAvailableAlways(replicas) == TRUE

\* deployment.Status.AvailableReplicas > 0 decides between Running and Pending
IsAvailable(replicas) == replicas > 0

FinalStatusKeepsReplicas(srv, d) ==
    [srv EXCEPT !.deploymentName = DeploymentName(ServerName),
                !.serviceEndpoint = ServiceEndpoint(srv),
                !.phase = IF IsAvailable(d.availableReplicas)
                          THEN TritonServerPhaseRunning ELSE TritonServerPhasePending,
                !.message = IF IsAvailable(d.availableReplicas)
                            THEN "Triton Server is ready to serve inference."
                            ELSE "Waiting for Triton Server to become ready.",
                !.condAvailable = IF IsAvailable(d.availableReplicas)
                                  THEN "True" ELSE "False"]

\* the status the reconcile writes at its end, from the Deployment it read back
FinalStatus(srv, d) ==
    [srv EXCEPT !.deploymentName = DeploymentName(ServerName),
                !.availableReplicas = d.availableReplicas,
                !.serviceEndpoint = ServiceEndpoint(srv),
                !.phase = IF IsAvailable(d.availableReplicas)
                          THEN TritonServerPhaseRunning ELSE TritonServerPhasePending,
                !.message = IF IsAvailable(d.availableReplicas)
                            THEN "Triton Server is ready to serve inference."
                            ELSE "Waiting for Triton Server to become ready.",
                !.condAvailable = IF IsAvailable(d.availableReplicas)
                                  THEN "True" ELSE "False"]

\* the return after the final Status().Update: a conflict asks for a requeue
FinalStatusReturn(so) ==
    Returned("server", "upsert", so = "conflict", 0, IF so = "apierror" THEN so ELSE "nil")

-----------------------------------------------------------------------------
(* The users of servers, and the platform's Deployment controller *)

UserCreateServer ==
    /\ ~server.exists
    /\ \E ref \in {AppName, GhostApp}, sp \in ServerSpecChoices :
          server' = [NoServer EXCEPT !.exists = TRUE, !.applicationRef = ref, !.spec = sp]
    /\ queue' = queue \cup {"server"}
    /\ last' = NoLast
    /\ UNCHANGED <<projectVars, appVars, deployment, service, monitor>>

UserEditServer ==
    /\ server.exists /\ ~server.deleting
    /\ \E sp \in ServerSpecChoices :
          /\ sp # server.spec
          /\ server' = [server EXCEPT !.spec = sp]
    /\ queue' = queue \cup {"server"}
    /\ last' = NoLast
    /\ UNCHANGED <<projectVars, appVars, deployment, service, monitor>>

\* delete sets the deletion timestamp; once no finalizer is left the server goes
\* and the platform collects the objects it owns
UserDeleteServer ==
    /\ server.exists /\ ~server.deleting
    /\ IF server.finalizers = {}
       THEN /\ server' = NoServer
            /\ deployment' = IF deployment.owner = ServerName THEN NoDeployment ELSE deployment
            /\ service' = IF service.owner = ServerName THEN NoService ELSE service
            /\ monitor' = IF monitor.owner = ServerName THEN NoMonitor ELSE monitor
       ELSE /\ server' = [server EXCEPT !.deleting = TRUE]
            /\ UNCHANGED <<deployment, service, monitor>>
    /\ queue' = queue \cup {"server"}
    /\ last' = NoLast
    /\ UNCHANGED <<projectVars, appVars>>

\* the Deployment controller reports the replicas that are available; the server
\* owns the Deployment, so the change puts the server in the queue
DeploymentStatusChanges ==
    /\ deployment.exists
    /\ \E n \in 0..MaxReplicas :
          /\ n # deployment.availableReplicas
          /\ deployment' = [deployment EXCEPT !.availableReplicas = n]
    /\ queue' = IF deployment.owner = ServerName THEN queue \cup {"server"} ELSE queue
    /\ last' = NoLast
    /\ UNCHANGED <<projectVars, appVars, server, service, monitor>>

\* someone labels the Deployment or the Service; the server owns them, so the
\* change puts the server in the queue
ExternalLabelsDeployment ==
    /\ deployment.exists /\ ForeignLabel \notin deployment.otherLabels
    /\ deployment' = [deployment EXCEPT !.otherLabels = @ \cup {ForeignLabel}]
    /\ queue' = IF deployment.owner = ServerName THEN queue \cup {"server"} ELSE queue
    /\ last' = NoLast
    /\ UNCHANGED <<projectVars, appVars, server, service, monitor>>

ExternalLabelsService ==
    /\ service.exists /\ ForeignLabel \notin service.otherLabels
    /\ service' = [service EXCEPT !.otherLabels = @ \cup {ForeignLabel}]
    /\ queue' = IF service.owner = ServerName THEN queue \cup {"server"} ELSE queue
    /\ last' = NoLast
    /\ UNCHANGED <<projectVars, appVars, server, deployment, monitor>>

-----------------------------------------------------------------------------
(* KalypsoTritonServerReconciler.Reconcile, one action per branch *)

ServerNotFound ==
    /\ "server" \in queue
    /\ ~server.exists
    /\ last' = Returned("server", "notfound", FALSE, 0, "nil")
    /\ queue' = AfterReconcile("server", last', FALSE)
    /\ UNCHANGED <<projectVars, appVars, serverVars>>

\* reconcileDelete: remove the finalizer; a conflict asks for a requeue
ServerReconcileDelete ==
    /\ "server" \in queue
    /\ server.exists /\ server.deleting
    /\ \E uo \in WriteOutcomes :
          LET released == [server EXCEPT !.finalizers = @ \ {TritonServerFinalizerName}]
              gone == uo = "ok" /\ released.finalizers = {}
          IN
          /\ server' = IF uo # "ok" THEN server
                       ELSE IF gone THEN NoServer ELSE released
          /\ deployment' = IF gone /\ deployment.owner = ServerName
                           THEN NoDeployment ELSE deployment
          /\ service' = IF gone /\ service.owner = ServerName THEN NoService ELSE service
          /\ monitor' = IF gone /\ monitor.owner = ServerName THEN NoMonitor ELSE monitor
          /\ last' = [Returned("server", "delete", uo = "conflict", 0,
                               IF uo = "apierror" THEN uo ELSE "nil")
                      EXCEPT !.failed = IF uo = "ok" THEN "" ELSE "update",
                             !.ownWrite = uo]
    /\ queue' = AfterReconcile("server", last', server' # server)
    /\ UNCHANGED <<projectVars, appVars>>

ServerAddFinalizer ==
    /\ "server" \in queue
    /\ server.exists /\ ~server.deleting
    /\ TritonServerFinalizerName \notin server.finalizers
    /\ \E o \in WriteOutcomes :
          /\ server' = IF o = "ok"
                       THEN [server EXCEPT !.finalizers = @ \cup {TritonServerFinalizerName}]
                       ELSE server
          /\ last' = [Returned("server", "finalizer", o = "ok", 0,
                               IF o = "ok" THEN "nil" ELSE o)
                      EXCEPT !.failed = IF o = "ok" THEN "" ELSE "update",
                             !.ownWrite = o]
    /\ queue' = AfterReconcile("server", last', server' # server)
    /\ UNCHANGED <<projectVars, appVars, deployment, service, monitor>>

ServerInitPhase ==
    /\ "server" \in queue
    /\ server.exists /\ ~server.deleting
    /\ TritonServerFinalizerName \in server.finalizers
    /\ server.phase = ""
    /\ \E o \in WriteOutcomes :
          /\ server' = IF o = "ok" THEN [server EXCEPT !.phase = TritonServerPhasePending]
                       ELSE server
          /\ last' = [Returned("server", "initphase", o = "ok", 0,
                               IF o = "ok" THEN "nil" ELSE o)
                      EXCEPT !.failed = IF o = "ok" THEN "" ELSE "status",
                             !.ownWrite = o,
                             !.phaseSet = TritonServerPhasePending]
    /\ queue' = AfterReconcile("server", last', server' # server)
    /\ UNCHANGED <<projectVars, appVars, deployment, service, monitor>>

ServerValidatesBeforeFinalizer ==
    /\ "server" \in queue
    /\ server.exists /\ ~server.deleting

\* past the finalizer and the initial phase: the reconcile looks at the Application
ServerValidates ==
    /\ "server" \in queue
    /\ server.exists /\ ~server.deleting
    /\ TritonServerFinalizerName \in server.finalizers
    /\ server.phase # ""

\* the Get of the Application fails with an error that is not NotFound
ServerGetFailed ==
    /\ ServerValidates
    /\ last' = [Returned("server", "getFailed", FALSE, 0, "apierror") EXCEPT !.failed = "get"]
    /\ queue' = AfterReconcile("server", last', FALSE)
    /\ UNCHANGED <<projectVars, appVars, serverVars>>

\* the Application is not found: setFailedStatus (its write error dropped), then
\* RequeueAfter 30 s and no error
ServerApplicationMissing ==
    /\ ServerValidates
    /\ ~ApplicationFound(server)
    /\ \E sf \in WriteOutcomes :
          LET message == ApplicationNotFoundMessage(server.applicationRef) IN
          /\ server' = IF sf = "ok" THEN setFailedStatusServer(server, message) ELSE server
          /\ last' = [Returned("server", "applicationMissing", FALSE,
                               MissingParentRequeueSeconds, "nil")
                      EXCEPT !.ownWrite = IF sf = "ok" THEN "ok" ELSE "dropped",
                             !.phaseSet = TritonServerPhaseFailed,
                             !.message = message]
    /\ queue' = AfterReconcile("server", last', server' # server)
    /\ UNCHANGED <<projectVars, appVars, deployment, service, monitor>>

\* the Application is found: upsert the Deployment, the Service and, if asked
\* for, the ServiceMonitor, read the
\* Deployment back, re-fetch the server and write its status.  f names the call
\* that fails ("none": no call before the status write does)
ServerUpsert ==
    /\ ServerValidates
    /\ ApplicationFound(server)
    /\ \E f \in {"none", "deployment", "service", "getDeployment", "refetch"},
          so \in WriteOutcomes :
          LET d == IF f = "deployment" THEN deployment
                   ELSE reconcileDeployment(deployment, server, app)
              sv == IF f \in {"deployment", "service"} THEN service
                    ELSE reconcileService(service, server)
              mon == IF f \in {"deployment", "service"} THEN monitor
                     ELSE reconcileServiceMonitor(monitor, server)
              issued == (IF d # deployment THEN 1 ELSE 0) + (IF sv # service THEN 1 ELSE 0)
                        + (IF mon # monitor THEN 1 ELSE 0)
              message == IF f = "deployment"
                         THEN "Failed to reconcile Deployment: " \o ApiErrorText
                         ELSE "Failed to reconcile Service: " \o ApiErrorText
          IN
          /\ deployment' = d
          /\ service' = sv
          /\ monitor' = mon
          /\ IF f \in {"deployment", "service"}
             THEN /\ server' = IF so = "ok" THEN setFailedStatusServer(server, message)
                               ELSE server
                  /\ last' = [Returned("server", "upsert", FALSE, 0, "apierror")
                              EXCEPT !.writes = issued, !.failed = f,
                                     !.ownWrite = IF so = "ok" THEN "ok" ELSE "dropped",
                                     !.phaseSet = TritonServerPhaseFailed,
                                     !.message = message]
             ELSE IF f \in {"getDeployment", "refetch"}
             THEN /\ so = "ok"
                  /\ server' = server
                  /\ last' = [Returned("server", "upsert", FALSE, 0, "apierror")
                              EXCEPT !.writes = issued, !.failed = f]
             ELSE /\ server' = IF so = "ok" THEN FinalStatus(server, d) ELSE server
                  /\ last' = [FinalStatusReturn(so)
                              EXCEPT !.writes = issued,
                                     !.failed = IF so = "ok" THEN "" ELSE "status",
                                     !.ownWrite = so,
                                     !.phaseSet = FinalStatus(server, d).phase,
                                     !.availRead = d.availableReplicas]
    /\ queue' = AfterReconcile("server", last', server' # server)
    /\ UNCHANGED <<projectVars, appVars>>

-----------------------------------------------------------------------------
(* Specifications *)

Init ==
    /\ project = NoProject
    /\ namespaces = [n \in NsNames |-> NoNamespace]
    /\ quotas = {}
    /\ limits = {}
    /\ app = NoApp
    /\ server = NoServer
    /\ deployment = NoDeployment
    /\ service = NoService
    /\ monitor = NoMonitor
    /\ queue = {}
    /\ last = NoLast

ProjectNext ==
    \/ UserCreateProject
    \/ UserEditProject
    \/ UserDeleteProject
    \/ ProjectEvent
    \/ ExternalRelabelNamespace
    \/ ExternalCreateNamespace
    \/ ExternalDeleteNamespace
    \/ ProjectNotFound
    \/ ProjectAddFinalizer
    \/ ProjectInitPhase
    \/ ProjectReconcileEnvs
    \/ ProjectReconcileDelete

ProjectSpec == Init /\ [][ProjectNext]_vars

AppNext ==
    \/ UserCreateApp
    \/ UserDeleteApp
    \/ AppEvent
    \/ ProjectStatusChanges
    \/ AppNotFound
    \/ AppReconcileDelete
    \/ AppAddFinalizer
    \/ AppInitPhase
    \/ AppGetFailed
    \/ AppProjectMissing
    \/ AppProjectNotReady
    \/ AppReady

AppSpec == Init /\ [][AppNext]_vars

\* A reconcile that asked for a requeue runs again, and the API server does not
\* refuse the status write of the Application for ever
AppLiveSpec == AppSpec /\ SF_vars(AppProjectMissing /\ last'.ownWrite = "ok")

\* A queued key is reconciled, and the API server does not refuse the writes of
\* the Application for ever (finitely many conflicts and errors).  No fairness
\* is asked of AppEvent: no new event for the Application has to come.
AppFairSpec ==
    /\ AppSpec
    /\ SF_vars(AppAddFinalizer /\ last'.ownWrite = "ok")
    /\ SF_vars(AppInitPhase /\ last'.ownWrite = "ok")
    /\ SF_vars(AppReady /\ last'.ownWrite = "ok")

ServerNext ==
    \/ UserCreateApp
    \/ UserDeleteApp
    \/ UserCreateServer
    \/ UserEditServer
    \/ UserDeleteServer
    \/ DeploymentStatusChanges
    \/ ServerNotFound
    \/ ServerReconcileDelete
    \/ ServerAddFinalizer
    \/ ServerInitPhase
    \/ ServerGetFailed
    \/ ServerApplicationMissing
    \/ ServerUpsert

ServerSpec == Init /\ [][ServerNext]_vars

\* The Application as its own reconciler leaves it: in one of its phases.  The
\* Server controller watches Servers and the objects they own, so a change of
\* the Application puts no Server in the queue.
ApplicationStatusChanges ==
    /\ app.exists
    /\ \E ph \in {"", ApplicationPhasePending, ApplicationPhaseFailed,
                   ApplicationPhaseReady} :
          /\ ph # app.phase
          /\ app' = [app EXCEPT !.phase = ph]
    /\ last' = NoLast
    /\ UNCHANGED <<projectVars, serverVars, queue>>

\* The Server reconciler beside an Application whose phase changes
ServerBesideAppNext ==
    \/ UserCreateApp
    \/ ApplicationStatusChanges
    \/ UserCreateServer
    \/ DeploymentStatusChanges
    \/ ServerAddFinalizer
    \/ ServerInitPhase
    \/ ServerGetFailed
    \/ ServerApplicationMissing
    \/ ServerUpsert

ServerBesideAppSpec == Init /\ [][ServerBesideAppNext]_vars

\* A reconcile that asked for a requeue runs again, and the API server does not
\* refuse the status write of the server for ever
ServerLiveSpec == ServerSpec /\ SF_vars(ServerApplicationMissing /\ last'.ownWrite = "ok")

\* The Application reconciler with Servers coming and going.  Its controller
\* is set up For(KalypsoApplication) only: a Server's creation or deletion puts
\* nothing in the Application's queue.
AppCountNext ==
    \/ AppNext
    \/ UserCreateServer
    \/ UserDeleteServer

\* A queued key is reconciled, and the API server does not refuse the writes of
\* the Application nor the List of the Servers for ever
AppCountSpec ==
    /\ Init /\ [][AppCountNext]_vars
    /\ SF_vars(AppAddFinalizer /\ last'.ownWrite = "ok")
    /\ SF_vars(AppInitPhase /\ last'.ownWrite = "ok")
    /\ SF_vars(AppReady /\ last'.ownWrite = "ok"
                        /\ app'.activeModels = countActiveTritonServers(TRUE))

\* The synthesis of the Deployment over the observability blocks a server's spec
\* can carry: a server past its finalizer and initial phase, its Application
\* present, with any of those blocks
ObservedServerSpecs ==
    {[CustomServerSpec EXCEPT !.observability = o] :
        o \in ObservabilityChoices \cup MetricsObservabilityChoices}
    \cup {DefaultServerSpec, NetworkedServerSpec}

SynthInit ==
    /\ project = NoProject
    /\ namespaces = [n \in NsNames |-> NoNamespace]
    /\ quotas = {}
    /\ limits = {}
    /\ app = [NoApp EXCEPT !.exists = TRUE, !.projectRef = ProjectName]
    /\ \E sp \in ObservedServerSpecs :
          server = [NoServer EXCEPT !.exists = TRUE,
                                    !.finalizers = {TritonServerFinalizerName},
                                    !.phase = TritonServerPhasePending,
                                    !.applicationRef = AppName, !.spec = sp]
    /\ deployment = NoDeployment
    /\ service = NoService
    /\ monitor = NoMonitor
    /\ queue = {"server"}
    /\ last = NoLast

SynthNext ==
    \/ ServerUpsert
    \/ DeploymentStatusChanges

SynthSpec == SynthInit /\ [][SynthNext]_vars

\* The upserts over children that others have labelled: a Project and a server
\* past their finalizer and initial phase, the Application present
UpsertInit ==
    /\ project = [NoProject EXCEPT !.exists = TRUE, !.finalizers = {FinalizerName},
                                   !.phase = ProjectPhaseProvisioning,
                                   !.envs = [e \in {AllEnvNames[1]} |-> PlainEnv]]
    /\ namespaces = [n \in NsNames |-> NoNamespace]
    /\ quotas = {}
    /\ limits = {}
    /\ app = [NoApp EXCEPT !.exists = TRUE, !.projectRef = ProjectName]
    /\ server = [NoServer EXCEPT !.exists = TRUE,
                                 !.finalizers = {TritonServerFinalizerName},
                                 !.phase = TritonServerPhasePending,
                                 !.applicationRef = AppName]
    /\ deployment = NoDeployment
    /\ service = NoService
    /\ monitor = NoMonitor
    /\ queue = {"project", "server"}
    /\ last = NoLast

UpsertNext ==
    \/ ProjectReconcileEnvs
    \/ ServerUpsert
    \/ ProjectEvent
    \/ UserEditServer
    \/ ExternalLabelsNamespace
    \/ ExternalLabelsDeployment
    \/ ExternalLabelsService

UpsertSpec == UpsertInit /\ [][UpsertNext]_vars

\* A Project that comes into a cluster where the namespace its first
\* environment gets by default is already there, made by someone else: with no
\* labels, or with the labels of another Project.  Nothing but the Project
\* reconciler acts on the namespaces.
PreExistingNamespace == DefaultNsName(ProjectName, AllEnvNames[1])

PreExistingChoices ==
    {[NoNamespace EXCEPT !.exists = TRUE],
     [NoNamespace EXCEPT !.exists = TRUE, !.project = OtherProject,
                         !.environment = AllEnvNames[1],
                         !.managedBy = ManagedByLabelValue]}

AdoptInit ==
    /\ project = NoProject
    /\ \E pre \in PreExistingChoices :
          namespaces = [n \in NsNames |-> IF n = PreExistingNamespace THEN pre
                                          ELSE NoNamespace]
    /\ quotas = {}
    /\ limits = {}
    /\ app = NoApp
    /\ server = NoServer
    /\ deployment = NoDeployment
    /\ service = NoService
    /\ monitor = NoMonitor
    /\ queue = {}
    /\ last = NoLast

AdoptNext ==
    \/ UserCreateProject
    \/ UserDeleteProject
    \/ ProjectNotFound
    \/ ProjectAddFinalizer
    \/ ProjectInitPhase
    \/ ProjectReconcileEnvs
    \/ ProjectReconcileDelete

AdoptSpec == AdoptInit /\ [][AdoptNext]_vars

\* The Project and the Application reconcilers side by side: the Application
\* meets its Project absent, Provisioning, Failed and Ready
PhasesNext ==
    \/ UserCreateProject
    \/ ProjectAddFinalizer
    \/ ProjectInitPhase
    \/ ProjectReconcileEnvs
    \/ UserCreateApp
    \/ AppAddFinalizer
    \/ AppInitPhase
    \/ AppProjectMissing
    \/ AppProjectNotReady
    \/ AppReady

PhasesSpec == Init /\ [][PhasesNext]_vars

\* The lifecycle the three kinds share: creation, finalizer, initial phase and
\* deletion, with the three controllers running side by side
LifecycleNext ==
    \/ UserCreateProject
    \/ UserDeleteProject
    \/ ProjectNotFound
    \/ ProjectAddFinalizer
    \/ ProjectInitPhase
    \/ ProjectReconcileDelete
    \/ UserCreateApp
    \/ UserDeleteApp
    \/ AppNotFound
    \/ AppAddFinalizer
    \/ AppInitPhase
    \/ AppReconcileDelete
    \/ UserCreateServer
    \/ UserDeleteServer
    \/ ServerNotFound
    \/ ServerAddFinalizer
    \/ ServerInitPhase
    \/ ServerReconcileDelete

LifecycleSpec == Init /\ [][LifecycleNext]_vars

\* Deletion of the three kinds: objects are created, receive the finalizer and
\* are deleted by their users
ReleaseNext ==
    \/ UserCreateProject
    \/ UserDeleteProject
    \/ ProjectAddFinalizer
    \/ ProjectReconcileDelete
    \/ UserCreateApp
    \/ UserDeleteApp
    \/ AppAddFinalizer
    \/ AppReconcileDelete
    \/ UserCreateServer
    \/ UserDeleteServer
    \/ ServerAddFinalizer
    \/ ServerReconcileDelete

\* The key of an object under deletion is reconciled again after every error
\* and conflict, and the API server does not refuse the calls of reconcileDelete
\* for ever
ReleaseSpec ==
    /\ Init /\ [][ReleaseNext]_vars
    /\ SF_vars(ProjectReconcileDelete /\ last'.ownWrite = "ok")
    /\ SF_vars(AppReconcileDelete /\ last'.ownWrite = "ok")
    /\ SF_vars(ServerReconcileDelete /\ last'.ownWrite = "ok")

-----------------------------------------------------------------------------
(* Claims about the Project reconciler *)

ProjectReconciled == last.op = "project" /\ last.branch = "envs" /\ last.err = "nil"

LabelledFor(n, projName) == namespaces[n].exists /\ namespaces[n].project = projName

\* C1: after a Project reconcile that ends with phase Ready, exactly N namespaces
\* exist for a Project with N environment entries, one per entry, each with the
\* project, environment and managed-by labels of its entry.
C1_OneNamespacePerEntry ==
    ProjectReconciled =>
        /\ Cardinality({n \in NsNames : LabelledFor(n, ProjectName)})
              = Cardinality(DOMAIN project.envs)
        /\ \A e \in DOMAIN project.envs :
              LET n == NsName(ProjectName, e, project.envs[e]) IN
                 /\ namespaces[n].exists
                 /\ namespaces[n].project = ProjectName
                 /\ namespaces[n].environment = e
                 /\ namespaces[n].managedBy = ManagedByLabelValue

CleanupStep == last'.op = "project" /\ last'.branch = "delete"

\* C2: deletion cleanup issues a Delete only for a namespace whose project label,
\* read in that cleanup, is the Project's name; a namespace relabelled to another
\* project is left as it is.
C2_DeletesOnlyOwnLabel ==
    [][CleanupStep =>
         \A n \in NsNames :
            /\ n \in last'.deletes => LabelledFor(n, ProjectName)
            /\ (namespaces[n].exists /\ ~namespaces'[n].exists) => LabelledFor(n, ProjectName)
            /\ LabelledFor(n, OtherProject) =>
                  namespaces'[n] = namespaces[n] /\ n \notin last'.deletes]_vars

\* C2 witness: a cleanup that deleted a namespace and left a relabelled one
C2_Witness ==
    /\ last.op = "project" /\ last.branch = "delete" /\ last.err = "conflict"
    /\ last.deletes # {}
    /\ \E i \in 1..Len(project.created) : LabelledFor(project.created[i], OtherProject)

FinalizerRemoved ==
    /\ project.exists /\ FinalizerName \in project.finalizers
    /\ ~project'.exists \/ FinalizerName \notin project'.finalizers

\* C3: when a Project is deleted, every namespace that carries its project label
\* (only its reconciler writes that label) has been deleted by the time the
\* finalizer is removed.
C3_NoOwnedNamespaceLeft ==
    [][FinalizerRemoved =>
         \A n \in NsNames :
            ~(namespaces'[n].exists /\ namespaces'[n].project = ProjectName)]_vars

\* C6: a reconcile of a Project or a Server that finds every child object as it
\* wants it (it changes no child object) issues no create or update on a child.
C6_SecondReconcileWritesNothing ==
    [][(/\ last'.op \in {"project", "server"}
        /\ last'.branch \in {"envs", "upsert"}
        /\ last'.err = "nil"
        /\ <<namespaces, quotas, limits, deployment, service>>'
              = <<namespaces, quotas, limits, deployment, service>>)
       => last'.writes = 0]_vars

\* C7: in Project deletion the finalizer is removed only when every namespace of
\* the owned list is gone or carries another project's label; a failed Get or
\* Delete of a listed namespace returns the error and leaves the finalizer.
C7_FinalizerAfterCleanup ==
    [][CleanupStep =>
         /\ FinalizerRemoved =>
               \A n \in {project.created[i] : i \in 1..Len(project.created)} :
                  ~(namespaces'[n].exists /\ namespaces'[n].project = ProjectName)
         /\ last'.failed \in {"get", "delete"} =>
               /\ last'.err # "nil"
               /\ project' = project]_vars

\* C7 witness: a cleanup stopped by a failed Delete, the finalizer still there
C7_Witness ==
    /\ last.op = "project" /\ last.branch = "delete" /\ last.failed = "delete"
    /\ project.exists /\ FinalizerName \in project.finalizers
    /\ \E i \in 1..Len(project.created) : LabelledFor(project.created[i], ProjectName)

\* C10: a version conflict on an update of the reconciled resource (finalizer add
\* or removal, initial-phase or final status write) makes the reconcile ask for an
\* immediate requeue and return no error.
C10_ConflictRequeues ==
    last.ownWrite = "conflict" => last.requeue /\ last.err = "nil"

-----------------------------------------------------------------------------
(* Claims about the Application reconciler *)

\* C4: an Application's phase is set to Ready only by a reconcile that fetched
\* the referenced Project and found its phase Ready; no reconcile sets Ready
\* while the Project is absent or in the empty, Provisioning or Failed phase.
C4_ReadyOnlyWithReadyProject ==
    [][(/\ last'.op = "app"
        /\ \/ last'.phaseSet = ApplicationPhaseReady
           \/ app'.phase = ApplicationPhaseReady /\ app.phase # ApplicationPhaseReady)
       => /\ ProjectFound(app)
          /\ project.phase = ProjectPhaseReady
          /\ last'.branch = "ready"]_vars

\* C4 witness: a reconcile took the Application from Pending to Ready
C4_Witness ==
    /\ last.op = "app" /\ last.branch = "ready" /\ last.ownWrite = "ok"
    /\ app.phase = ApplicationPhaseReady
    /\ ProjectFound(app) /\ project.phase = ProjectPhaseReady

ProjectMissingReconciled == last.op = "app" /\ last.branch = "projectMissing"

MarkedFailed ==
    /\ app.phase = ApplicationPhaseFailed
    /\ app.condReady = "False"
    /\ app.condReadyMessage = ProjectNotFoundMessage(app.projectRef)

\* C8: a reconcile that finds the referenced Project absent sets phase Failed
\* with a message naming the reference, returns no error and a requeue after
\* 30 seconds, and the Application stays queued for a second attempt; the
\* Application is marked Failed unless the Project appears or it is deleted.
C8_MissingProjectFailsAndRequeues ==
    /\ [](ProjectMissingReconciled =>
            /\ last.err = "nil"
            /\ last.requeueAfter = 30
            /\ ~last.requeue
            /\ last.phaseSet = ApplicationPhaseFailed
            /\ last.message = "KalypsoProject '" \o app.projectRef \o "' not found"
            /\ "app" \in queue
            /\ last.ownWrite = "ok" => MarkedFailed)
    /\ (ProjectMissingReconciled ~>
            (MarkedFailed \/ ProjectFound(app) \/ ~app.exists \/ app.deleting))

\* C8 witness: the status write of the Failed phase was refused, the Application
\* is still Pending and waits in the queue for the next attempt
C8_Witness ==
    /\ ProjectMissingReconciled
    /\ last.ownWrite = "dropped"
    /\ app.phase = ApplicationPhasePending
    /\ ~ProjectFound(app)
    /\ "app" \in queue

-----------------------------------------------------------------------------
(* Claims about the Server reconciler *)

ServerReconcileCompleted ==
    /\ last.op = "server" /\ last.branch = "upsert"
    /\ last.failed = "" /\ last.err = "nil" /\ last.ownWrite = "ok"

\* C5: after every completed Server reconcile with the Application present, the
\* phase is Running if and only if the available-replica count read from the
\* Deployment in that reconcile is greater than 0 (Pending otherwise), and the
\* Available condition mirrors that.
C5_RunningIffAvailable ==
    ServerReconcileCompleted =>
        /\ last.availRead = deployment.availableReplicas
        /\ server.availableReplicas = last.availRead
        /\ server.phase = TritonServerPhaseRunning <=> last.availRead > 0
        /\ server.phase = TritonServerPhasePending <=> last.availRead = 0
        /\ server.condAvailable = "True" <=> last.availRead > 0
        /\ server.condAvailable = "False" <=> last.availRead = 0

\* C5 witness: a completed reconcile read an available replica from the
\* Deployment and left the server Running
C5_Witness ==
    /\ ServerReconcileCompleted
    /\ last.availRead > 0
    /\ server.phase = TritonServerPhaseRunning
    /\ server.condAvailable = "True"

\* C9: every status write of the Server reconciler (the initial Pending write and
\* the final phase and replica write) that fails with a version conflict ends
\* the reconcile with an immediate requeue and no error.
C9_StatusConflictBenign ==
    (/\ last.op = "server"
     /\ last.branch \in {"initphase", "upsert"}
     /\ last.failed = "status"
     /\ last.ownWrite = "conflict")
    => (last.requeue /\ last.err = "nil")

-----------------------------------------------------------------------------
(* Claims about failures, finalizers, ownership and deletes *)

ChildUpsertFailed ==
    /\ last.op \in {"project", "server"}
    /\ last.failed \in {"ns", "quota", "limit", "deployment", "service"}

StoredFailure ==
    IF last.op = "project"
    THEN /\ project.phase = "Failed"
         /\ project.condReady = "False"
         /\ project.condReadyMessage = last.message
    ELSE /\ server.phase = "Failed"
         /\ server.condAvailable = "False"
         /\ server.message = last.message

NotFoundStep ==
    \/ last'.op = "project" /\ ~project.exists
    \/ last'.op = "app" /\ ~app.exists
    \/ last'.op = "server" /\ ~server.exists

\* C12: in all three reconcilers, a reconcile whose resource is not found on
\* fetch returns no error, asks for no requeue and writes to no object.
C12_NotFoundStopsSilently ==
    [][NotFoundStep =>
         /\ last'.err = "nil"
         /\ ~last'.requeue /\ last'.requeueAfter = 0
         /\ last'.writes = 0 /\ last'.deletes = {} /\ last'.ownWrite = "none"
         /\ <<projectVars, appVars, serverVars>>' = <<projectVars, appVars, serverVars>>
         /\ last'.op \notin queue']_vars

\* C12 witness: the Application was deleted while its key was queued, and the
\* reconcile of the key found nothing
C12_Witness ==
    /\ last.op = "app" /\ last.branch = "notfound"
    /\ ~app.exists /\ "app" \notin queue
    /\ project.exists /\ server.exists

\* a step that is a reconcile of a live resource without its finalizer token
FinalizerStep(kind, obj, token) ==
    /\ last'.op = kind
    /\ obj.exists /\ ~obj.deleting /\ token \notin obj.finalizers

FinalizerOnly(obj, objAfter, token) ==
    /\ last'.writes = 0 /\ last'.deletes = {}
    /\ <<namespaces, quotas, limits, deployment, service>>'
          = <<namespaces, quotas, limits, deployment, service>>
    /\ last'.op \in queue'
    /\ IF last'.ownWrite = "ok"
       THEN /\ objAfter = [obj EXCEPT !.finalizers = obj.finalizers \cup {token}]
            /\ last'.requeue /\ last'.requeueAfter = 0 /\ last'.err = "nil"
       ELSE /\ objAfter = obj
            /\ last'.err # "nil"

\* C13: a reconcile of a live Project, Application or Server without its kind's
\* finalizer token adds the token and asks for an immediate requeue (or returns
\* the error of the refused update), and writes no status and no child object
\* in that reconcile; the three tokens are distinct.
C13_FinalizerFirst ==
    [][/\ FinalizerStep("project", project, "serving.kalypso.io/finalizer")
            => FinalizerOnly(project, project', FinalizerName)
       /\ FinalizerStep("app", app, "serving.kalypso.io/application-finalizer")
            => FinalizerOnly(app, app', ApplicationFinalizerName)
       /\ FinalizerStep("server", server, "serving.kalypso.io/tritonserver-finalizer")
            => FinalizerOnly(server, server', TritonServerFinalizerName)
       /\ Cardinality({FinalizerName, ApplicationFinalizerName,
                       TritonServerFinalizerName}) = 3]_vars

\* C13 witness: the three kinds carry their three tokens, the last one just added
C13_Witness ==
    /\ last.op = "server" /\ last.branch = "finalizer" /\ last.requeue
    /\ project.finalizers = {FinalizerName}
    /\ app.finalizers = {ApplicationFinalizerName}
    /\ server.finalizers = {TritonServerFinalizerName}
    /\ server.phase = ""

\* C14: over any sequence of reconciles of one Server there is one workload
\* object, named "<server>-deploy", and one network-exposure object, named
\* "<server>-svc", each with the Server as its controller owner; both exist
\* after a completed reconcile, and a reconcile that finds them creates nothing.
C14_OneDeploymentOneService ==
    [][last'.op = "server" =>
         /\ deployment'.exists =>
               deployment'.name = "s1-deploy" /\ deployment'.owner = "s1"
         /\ service'.exists =>
               service'.name = "s1-svc" /\ service'.owner = "s1"
         /\ (last'.branch = "upsert" /\ last'.failed \notin {"deployment", "service"})
               => deployment'.exists /\ service'.exists
         /\ (deployment.exists /\ service.exists /\ server'.exists)
               => deployment'.exists /\ service'.exists]_vars

\* C14 witness: a second completed reconcile, after an edit of the Server's spec,
\* updated the two objects it had created
C14_Witness ==
    /\ ServerReconcileCompleted
    /\ last.writes = 2
    /\ server.phase = TritonServerPhaseRunning
    /\ deployment.exists /\ deployment.name = "s1-deploy" /\ deployment.owner = ServerName
    /\ service.exists /\ service.name = "s1-svc" /\ service.owner = ServerName
    /\ deployment.availableReplicas > 0

\* C15: every child object a reconciler creates (for a Project: namespace,
\* quota, limit range) carries an owner reference to the resource that created
\* it; here for the namespaces a Project reconcile creates.
C15_ChildrenOwned ==
    [][\A n \in NsNames :
          (last'.op = "project" /\ ~namespaces[n].exists /\ namespaces'[n].exists)
             => namespaces'[n].owner = ProjectName]_vars

OwnedList == {project.created[i] : i \in 1..Len(project.created)}

\* C16: the only Delete a reconciler issues is the Project reconciler's, in its
\* deletion cleanup, for a namespace of its owned list; the deletion handling of
\* Applications and Servers and every reconcile of a live resource (also after
\* an environment, quota or limit range was taken out of a Project's spec)
\* delete nothing.
C16_OnlyCleanupDeletes ==
    [][last'.op # "none" =>
         /\ last'.deletes # {} =>
               /\ last'.op = "project" /\ project.exists /\ project.deleting
               /\ last'.deletes \subseteq OwnedList
         /\ \A n \in NsNames :
               /\ (namespaces[n].exists /\ ~namespaces'[n].exists) => n \in last'.deletes
               /\ (n \in quotas \ quotas' \/ n \in limits \ limits') => n \in last'.deletes
         /\ (last'.op = "server" /\ server'.exists) =>
               /\ deployment.exists => deployment'.exists
               /\ service.exists => service'.exists
         /\ last'.op = "app" => <<server, deployment, service>>' = <<server, deployment, service>>]_vars

\* C16 witness: an environment with a quota was taken out of the spec; the next
\* reconcile ended Ready and left that environment's namespace and quota
C16_Witness ==
    /\ ProjectReconciled
    /\ last.deletes = {}
    /\ \E n \in NsNames :
          /\ LabelledFor(n, ProjectName)
          /\ n \in quotas
          /\ \A e \in DOMAIN project.envs : NsName(ProjectName, e, project.envs[e]) # n

AppSteady ==
    /\ app.exists /\ ~app.deleting
    /\ ProjectFound(app) /\ project.phase = ProjectPhaseReady

DependentServers == IF server.exists /\ server.applicationRef = "a1" THEN 1 ELSE 0

\* C17: the Application's active-model count is live: while the Application
\* stays live with a Ready Project, after a Server that references it is created
\* or deleted the count eventually equals the number of such Servers.
C17_CountIsLive ==
    [](AppSteady => <>(app.activeModels = DependentServers \/ ~AppSteady))

-----------------------------------------------------------------------------
(* Claims about the observability mapping *)

Observed == server.spec.observability

ArgsOf(d) == {d.spec.args[i] : i \in 1..Len(d.spec.args)}

LogFlags == {"--log-verbose=1", "--log-info=true", "--log-warning=true", "--log-error=true"}

LogFlagOf(level) ==
    IF level = "VERBOSE" THEN "--log-verbose=1"
    ELSE IF level = "INFO" THEN "--log-info=true"
    ELSE IF level = "WARNING" THEN "--log-warning=true"
    ELSE "--log-error=true"

-----------------------------------------------------------------------------
(* Claims about the waiting branches and the upserts *)

ProjectNotReadyReconciled == last.op = "app" /\ last.branch = "projectNotReady"

\* C22 as stated: every reconcile that finds the Project present and not Ready
\* publishes ProjectReady=False, returns no error and asks for a requeue after
\* 10 seconds.
C22_NotReadyAlwaysTenSeconds ==
    ProjectNotReadyReconciled =>
        /\ app.condProjectReady = "False"
        /\ last.err = "nil"
        /\ last.requeueAfter = 10

\* C22: a reconcile that finds the Project present and not Ready and whose
\* status write is accepted publishes ProjectReady=False, returns no error and
\* asks for a requeue after 10 seconds; on a write conflict it returns no error
\* and an immediate requeue, on another write error it returns the error.  The
\* Application reconciler asks for 30 seconds only in the missing-Project
\* branch and for 10 seconds only in the not-Ready branch.
C22_NotReadyWaitsTenSeconds ==
    /\ ProjectNotReadyReconciled =>
          /\ ProjectFound(app) /\ project.phase # ProjectPhaseReady
          /\ last.ownWrite = "ok" =>
                /\ app.condProjectReady = "False"
                /\ last.err = "nil" /\ ~last.requeue /\ last.requeueAfter = 10
          /\ last.ownWrite = "conflict" =>
                last.err = "nil" /\ last.requeue /\ last.requeueAfter = 0
          /\ last.ownWrite = "apierror" => last.err # "nil" /\ last.requeueAfter = 0
          /\ last.ownWrite \in {"ok", "conflict", "apierror"}
    /\ last.op = "app" =>
          /\ last.requeueAfter \in {0, 10, 30}
          /\ last.requeueAfter = 30 <=> last.branch = "projectMissing"
          /\ last.requeueAfter = 10 => last.branch = "projectNotReady"

\* C22 witness: the Project is Provisioning, the condition was written and the
\* reconcile asked for 10 seconds
C22_Witness ==
    /\ ProjectNotReadyReconciled
    /\ project.phase = ProjectPhaseProvisioning
    /\ last.ownWrite = "ok" /\ last.requeueAfter = 10 /\ last.err = "nil"
    /\ app.condProjectReady = "False"

ApplicationMissingReconciled == last.op = "server" /\ last.branch = "applicationMissing"

ServerMarkedFailed ==
    /\ server.phase = TritonServerPhaseFailed
    /\ server.condAvailable = "False"
    /\ server.message = ApplicationNotFoundMessage(server.applicationRef)

\* C23: a Server reconcile that finds the referenced Application absent sets
\* phase Failed with the message "KalypsoApplication '<ref>' not found", returns
\* no error, whatever becomes of its status write, and a requeue after 30
\* seconds; the server stays queued, and it is marked Failed unless the
\* Application appears or the server is deleted.
C23_MissingApplicationFailsAndRequeues ==
    /\ [](ApplicationMissingReconciled =>
            /\ ~ApplicationFound(server)
            /\ last.err = "nil"
            /\ last.requeueAfter = 30
            /\ ~last.requeue
            /\ last.phaseSet = TritonServerPhaseFailed
            /\ last.message = "KalypsoApplication '" \o server.applicationRef \o "' not found"
            /\ "server" \in queue
            /\ last.ownWrite = "ok" =>
                  /\ server.phase = TritonServerPhaseFailed
                  /\ server.message = last.message)
    /\ (ApplicationMissingReconciled ~>
            (ServerMarkedFailed \/ ApplicationFound(server)
               \/ ~server.exists \/ server.deleting))

\* C23 witness: the server names an Application that is not there, it is
\* Failed with the message naming it, and the reconcile asked for 30 seconds
C23_Witness ==
    /\ ApplicationMissingReconciled
    /\ last.ownWrite = "ok" /\ last.err = "nil" /\ last.requeueAfter = 30
    /\ ~app.exists
    /\ server.phase = TritonServerPhaseFailed
    /\ server.message = "KalypsoApplication 'a1' not found"

\* the reconcile of the last step failed in an upsert of its environment loop
EnvStepFailed ==
    /\ last.op = "project" /\ last.branch = "envs"
    /\ last.failed \in {"ns", "quota", "limit"}

\* the child objects that the entries e of the set es ask for are there
AppliedFor(p, es, ns, qs, ls) ==
    \A e \in es :
       LET n == NsName(ProjectName, e, p.envs[e]) IN
       /\ ns[n].exists /\ ns[n].project = ProjectName
       /\ p.envs[e].quota => n \in qs
       /\ p.envs[e].limit => n \in ls

ProjectFullyReconciled ==
    /\ ProjectReconciled /\ last.failed = "" /\ last.ownWrite = "ok"

ListedNamespaces == {project.created[i] : i \in 1..Len(project.created)}

\* C25: after a Project reconcile in which every upsert and the status write
\* succeeded, the phase is Ready and status.createdNamespaces has one element
\* per environment entry of the spec and holds exactly the namespace names of
\* the entries: the name the entry sets, or "<project>-<env>" when it sets none.
C25_CreatedNamespacesListed ==
    ProjectFullyReconciled =>
        /\ project.phase = ProjectPhaseReady
        /\ Len(project.created) = Cardinality(DOMAIN project.envs)
        /\ ListedNamespaces =
              {IF project.envs[e].namespace = "" THEN "p1-" \o e
               ELSE project.envs[e].namespace : e \in DOMAIN project.envs}

\* C25 witness: two entries, one of them naming its namespace, both listed
C25_Witness ==
    /\ ProjectFullyReconciled
    /\ project.phase = ProjectPhaseReady
    /\ Len(project.created) = 2
    /\ \E e \in DOMAIN project.envs : project.envs[e].namespace # ""
    /\ \E e \in DOMAIN project.envs :
          project.envs[e].namespace = "" /\ ("p1-" \o e) \in ListedNamespaces

ReadyReconciled == last.op = "app" /\ last.branch = "ready"

\* C26: a reconcile that observes the Project Ready writes phase Ready, the
\* conditions ProjectReady=True and Ready=True and the gateway endpoint
\* "http://istio-gateway.istio-system.svc/<application name>", and the stored
\* status is that one once the write is accepted; a failed count of the
\* Servers changes none of this and is no error: such a reconcile returns an
\* error only if its own status write or re-fetch failed.
C26_ReadyWrittenDespiteCountFailure ==
    ReadyReconciled =>
        /\ ProjectFound(app) /\ project.phase = ProjectPhaseReady
        /\ last.phaseSet = ApplicationPhaseReady
        /\ last.err # "nil" <=> last.ownWrite = "apierror"
        /\ last.ownWrite = "ok" =>
              /\ app.phase = ApplicationPhaseReady
              /\ app.condProjectReady = "True"
              /\ app.condReady = "True"
              /\ app.gatewayEndpoint = "http://istio-gateway.istio-system.svc/" \o AppName
              /\ last.listFailed => app.activeModels = 0

\* C26 witness: the List of the Servers failed while a Server of the
\* Application exists, and the Application is Ready with its endpoint
C26_Witness ==
    /\ ReadyReconciled
    /\ last.listFailed /\ last.ownWrite = "ok" /\ last.err = "nil"
    /\ server.exists /\ server.applicationRef = AppName
    /\ app.phase = ApplicationPhaseReady /\ app.activeModels = 0
    /\ app.gatewayEndpoint = "http://istio-gateway.istio-system.svc/a1"

\* the flags the observability block can add
TraceFlags ==
    {"--trace-config=mode=opentelemetry,url=http://tempo:4317,rate=" \o r :
        r \in {"0.5", "0.1"}}

PortOrDefault(set, default) == IF set # 0 THEN set ELSE default

ThreePorts(http, grpc, metrics) ==
    <<[name |-> "http", port |-> http], [name |-> "grpc", port |-> grpc],
      [name |-> "metrics", port |-> metrics]>>

\* C28: the Service has the ports http, grpc and metrics with the numbers of
\* the container ports of the Deployment, each the networking block's value or,
\* on its own, 8000, 8001 or 8002; its selector is the server's
\* kalypso-serving.io/tritonserver label and nothing else; the readiness probe,
\* the liveness probe and the service endpoint of the status use the HTTP
\* port.
C28_PortsAgree ==
    LET http == PortOrDefault(server.spec.httpPort, 8000)
        grpc == PortOrDefault(server.spec.grpcPort, 8001)
        metrics == PortOrDefault(server.spec.metricsPort, 8002)
    IN /\ deployment.exists =>
             /\ deployment.spec.ports = ThreePorts(http, grpc, metrics)
             /\ deployment.spec.readinessProbePort = http
             /\ deployment.spec.livenessProbePort = http
       /\ service.exists =>
             /\ service.ports = ThreePorts(http, grpc, metrics)
             /\ service.ports = deployment.spec.ports
             /\ service.selector = {<<"kalypso-serving.io/tritonserver", "s1">>}
       /\ ServerReconcileCompleted =>
             server.serviceEndpoint
                = "http://s1-svc.kalypso-system.svc:" \o ToString(http)

\* C28 witness: the HTTP port is set to 9000 and the two others are left to
\* their defaults
C28_Witness ==
    /\ ServerReconcileCompleted
    /\ server.spec.httpPort = 9000 /\ server.spec.grpcPort = 0
    /\ service.ports = ThreePorts(9000, 8001, 8002)
    /\ deployment.spec.livenessProbePort = 9000
    /\ server.serviceEndpoint = "http://s1-svc.kalypso-system.svc:9000"

\* a step that is a reconcile of the Project or of the server
ChildReconcileStep == last'.op \in {"project", "server"}

\* C29: a reconcile keeps what it does not manage on a child that exists: the
\* cluster IP of the Service, and every label of the Service, the Deployment
\* and a namespace that is none of the managed keys; the managed keys of a
\* child it upserts carry the reconciler's values next to those labels.
C29_UpsertKeepsForeignFields ==
    [][ChildReconcileStep =>
         /\ service.exists =>
               /\ service'.exists
               /\ service'.clusterIP = service.clusterIP
               /\ service.otherLabels \subseteq service'.otherLabels
               /\ service' # service => service'.labels = ManagedLabels(server)
         /\ deployment.exists =>
               /\ deployment'.exists
               /\ deployment.otherLabels \subseteq deployment'.otherLabels
               /\ deployment' # deployment => deployment'.labels = ManagedLabels(server)
         /\ \A n \in NsNames :
               namespaces[n].exists =>
                  /\ namespaces'[n].exists
                  /\ namespaces[n].otherLabels \subseteq namespaces'[n].otherLabels
                  /\ namespaces'[n] # namespaces[n] =>
                        /\ namespaces'[n].project = ProjectName
                        /\ namespaces'[n].managedBy = ManagedByLabelValue]_vars

\* C29 witness: the server was edited and reconciled again; its labelled
\* Service has the new port, its cluster IP and its label, the labelled
\* Deployment its label, and the labelled namespace carries the Project's labels
C29_Witness ==
    /\ ServerReconcileCompleted /\ last.writes = 2
    /\ service.otherLabels = {ForeignLabel} /\ service.clusterIP = "10.96.0.10"
    /\ service.ports[1].port = 9000
    /\ deployment.otherLabels = {ForeignLabel}
    /\ \E n \in NsNames :
          /\ namespaces[n].otherLabels = {ForeignLabel}
          /\ namespaces[n].project = ProjectName
          /\ project.phase = ProjectPhaseReady

\* C30: after a reconcile that observed the Project in a phase other than
\* Ready, the phase of the Application is not Ready.
C30_NotReadyProjectLeavesReady ==
    ProjectNotReadyReconciled => app.phase # ApplicationPhaseReady

-----------------------------------------------------------------------------
(* Claims about namespaces the Project shares with others *)

\* C31: the namespace that was in the cluster before the Project, under the
\* name of one of the Project's environments, is never removed by the Project
\* reconciler: under AdoptSpec, where nothing else acts on namespaces, it is
\* always there.
C31_PreExistingNamespaceSurvives ==
    namespaces[PreExistingNamespace].exists

\* C32: a reconcile of the Project leaves the project label of a namespace that
\* is labelled for another Project as it is, so that the label of a namespace
\* two Projects name is stable and only the Project it names cleans it up.
C32_OtherProjectsLabelKept ==
    [][(last'.op = "project" /\ last'.branch = "envs") =>
         \A n \in NsNames :
            LabelledFor(n, OtherProject) => namespaces'[n].project = OtherProject]_vars

-----------------------------------------------------------------------------
(* Claims about the order of a resource's lifecycle *)

\* the reconciled resource has its finalizer and a phase
Established(op) ==
    IF op = "project"
    THEN project.exists /\ FinalizerName \in project.finalizers /\ project.phase # ""
    ELSE IF op = "app"
    THEN app.exists /\ ApplicationFinalizerName \in app.finalizers /\ app.phase # ""
    ELSE server.exists /\ TritonServerFinalizerName \in server.finalizers
            /\ server.phase # ""

\* a reconcile on a branch that lies behind the finalizer and the initial phase
PastTheGates ==
    /\ last'.op \in {"project", "app", "server"}
    /\ last'.branch \notin {"notfound", "delete", "finalizer", "initphase"}

\* a reconcile that is not a cleanup wrote a child object
ChildWritten ==
    /\ last'.op \in {"project", "app", "server"}
    /\ last'.branch # "delete"
    /\ \/ last'.writes > 0
       \/ <<namespaces, quotas, limits, deployment, service, monitor>>'
             # <<namespaces, quotas, limits, deployment, service, monitor>>

\* a reconcile wrote into the status what it found about the parent or the
\* children of its resource
DependencyStatusWritten ==
    \/ last'.op = "project" /\ project'.exists
          /\ <<project'.created, project'.condNamespaceCreated>>
                # <<project.created, project.condNamespaceCreated>>
    \/ last'.op = "app" /\ app'.exists
          /\ <<app'.condProjectReady, app'.activeModels, app'.gatewayEndpoint>>
                # <<app.condProjectReady, app.activeModels, app.gatewayEndpoint>>
    \/ last'.op = "server" /\ server'.exists
          /\ <<server'.deploymentName, server'.serviceEndpoint,
               server'.availableReplicas, server'.condAvailable>>
                # <<server.deploymentName, server.serviceEndpoint,
                    server.availableReplicas, server.condAvailable>>
    \/ last'.op \in {"project", "app", "server"} /\ last'.phaseSet \in {"Ready", "Running", "Failed"}

\* C33: a reconcile that writes a child object, that writes a status derived
\* from its dependencies, or that is on any branch behind the finalizer and the
\* initial phase, is a reconcile of a resource that already had its finalizer
\* and a non-empty phase; a child that a reconcile creates is created for a
\* resource with its finalizer.
C33_NoChildWriteBeforeFinalizer ==
    [][(PastTheGates \/ ChildWritten \/ DependencyStatusWritten)
          => Established(last'.op)]_vars

\* C33 witness: the Deployment and the Service were created in the reconcile
\* after the one that set the initial phase; the server has its finalizer
C33_Witness ==
    /\ last.op = "server" /\ last.branch = "upsert" /\ last.writes = 2
    /\ deployment.exists /\ service.exists
    /\ TritonServerFinalizerName \in server.finalizers
    /\ server.phase = TritonServerPhasePending
    /\ server.deploymentName = "s1-deploy"

\* C34: a stored server of phase Running has a stored available-replica count
\* above 0 and the stored Deployment name "<server>-deploy"; a reconcile whose
\* Failed or Pending status was stored leaves no Running phase behind.
C34_RunningHasReplicas ==
    /\ server.phase = TritonServerPhaseRunning =>
          /\ server.availableReplicas > 0
          /\ server.deploymentName = "s1-deploy"
    /\ (/\ last.op = "server" /\ last.ownWrite = "ok"
        /\ last.phaseSet \in {TritonServerPhaseFailed, TritonServerPhasePending})
       => server.phase = last.phaseSet

\* C34 witness: a server that was Running is Failed for its missing
\* Application, with the replica count of its last good reconcile
C34_Witness ==
    /\ ApplicationMissingReconciled /\ last.ownWrite = "ok"
    /\ server.phase = TritonServerPhaseFailed
    /\ server.availableReplicas > 0
    /\ server.deploymentName = "s1-deploy"

\* C35: after a Project reconcile that stored phase Ready, the status holds no
\* condition of type Ready with status False.
C35_ReadyPhaseHasNoReadyFalse ==
    (ProjectFullyReconciled /\ project.phase = ProjectPhaseReady)
       => project.condReady # "False"

\* a reconcile of a live server while no Application of the name it refers to
\* is in the store
ReconciledWithoutApplication ==
    /\ last'.op = "server"
    /\ last'.branch \notin {"notfound", "delete"}
    /\ ~(app.exists /\ server.applicationRef = "a1")

\* C36: a Server reconcile that does not find the referenced Application issues
\* no write and no delete on the Deployment, the Service or the ServiceMonitor:
\* those of an earlier reconcile are after it what they were before.
C36_MissingApplicationTouchesNoChild ==
    [][ReconciledWithoutApplication =>
         /\ deployment' = deployment
         /\ service' = service
         /\ monitor' = monitor
         /\ last'.writes = 0 /\ last'.deletes = {}]_vars

\* C36 witness: the Application went away after the server had its Deployment
\* and Service; the server is Failed and both are still there
C36_Witness ==
    /\ ApplicationMissingReconciled /\ ~app.exists
    /\ ServerMarkedFailed
    /\ deployment.exists /\ deployment.name = "s1-deploy"
    /\ service.exists /\ service.name = "s1-svc"

-----------------------------------------------------------------------------
(* Claims about progress *)

\* the Application is there, not being deleted, and its Project is Ready
ProjectStaysReady ==
    /\ app.exists /\ ~app.deleting
    /\ ProjectFound(app) /\ project.phase = ProjectPhaseReady

\* C37: if from some point on the Application is not deleted and its Project
\* is Ready, then from some point on the Application is Ready, whatever phase it
\* was in; no step of the Application's users is needed for it, and the key of
\* an Application that is not Ready yet is in the work queue.
C37_ApplicationBecomesReady ==
    /\ (<>[]ProjectStaysReady) => <>[](app.phase = ApplicationPhaseReady)
    /\ [](ProjectStaysReady /\ app.phase # ApplicationPhaseReady => "app" \in queue)

\* C37 witness: the Project is Ready, the Application is Ready with its
\* conditions and its key has left the work queue
C37_Witness ==
    /\ ProjectStaysReady
    /\ app.phase = ApplicationPhaseReady /\ app.condProjectReady = "True"
    /\ last.op = "app" /\ last.branch = "ready"
    /\ "app" \notin queue

\* an object under deletion that the controller's finalizer still holds
HeldProject ==
    project.exists /\ project.deleting /\ FinalizerName \in project.finalizers

HeldApp ==
    app.exists /\ app.deleting /\ ApplicationFinalizerName \in app.finalizers

HeldServer ==
    server.exists /\ server.deleting /\ TritonServerFinalizerName \in server.finalizers

\* a deletion reconcile of an Application or a Server whose Update was accepted
AcceptedDeletionReconcile ==
    /\ last'.op \in {"app", "server"}
    /\ last'.branch = "delete"
    /\ last'.ownWrite = "ok"

\* C38: an object with a deletion timestamp and the controller's finalizer
\* loses the finalizer in the end; an Application and a Server lose it in the
\* first deletion reconcile whose Update is accepted, and the Application does
\* so whether or not a Server still names it.
C38_FinalizerRemovedInTheEnd ==
    /\ HeldProject ~> ~HeldProject
    /\ HeldApp ~> ~HeldApp
    /\ HeldServer ~> ~HeldServer
    /\ [][AcceptedDeletionReconcile =>
            /\ last'.op = "app" => ~HeldApp'
            /\ last'.op = "server" => ~HeldServer']_vars
    /\ [](HeldApp => "app" \in queue)

\* C38 witness: the Application was released by its deletion reconcile while
\* a Server that names it is still there
C38_Witness ==
    /\ last.op = "app" /\ last.branch = "delete" /\ last.ownWrite = "ok"
    /\ ~app.exists
    /\ server.exists /\ ~server.deleting /\ server.applicationRef = "a1"

-----------------------------------------------------------------------------
(* Claims about the Application as the Server reconciler sees it *)

\* a reconcile of a live Server, past the finalizer and the initial phase, whose
\* Get of the Application found it
ReconciledWithApplication ==
    /\ last'.op = "server"
    /\ last'.branch \in {"applicationMissing", "upsert"}
    /\ app.exists /\ server.applicationRef = AppName

\* the phase that the available replicas of the Deployment alone give
PhaseFromReplicas(d) ==
    IF d.availableReplicas > 0 THEN TritonServerPhaseRunning ELSE TritonServerPhasePending

\* C39: with the Application present, in whatever phase, the Server is never
\* reported as missing its Application; a reconcile in which no call fails
\* leaves the Deployment and the Service in place, and the phase it writes is
\* the one the Deployment's available replicas give.
C39_ApplicationPhaseNotRequired ==
    [][ReconciledWithApplication =>
         /\ last'.branch = "upsert"
         /\ last'.failed \in {"", "status"} =>
               /\ deployment'.exists /\ deployment'.name = DeploymentName(ServerName)
               /\ service'.exists
               /\ last'.phaseSet = PhaseFromReplicas(deployment')
               /\ last'.ownWrite = "ok" => server'.phase = PhaseFromReplicas(deployment')]_vars

\* C39 witness: a Server written Running while its Application is Failed
C39_Witness ==
    /\ last.op = "server" /\ last.branch = "upsert" /\ last.ownWrite = "ok"
    /\ app.exists /\ app.phase = ApplicationPhaseFailed
    /\ server.applicationRef = AppName
    /\ server.phase = TritonServerPhaseRunning
    /\ deployment.exists /\ service.exists

-----------------------------------------------------------------------------
(* Claims about the initial phases *)

\* the step writes the Project's initial phase
ProvisioningWritten ==
    project'.exists /\ project'.phase = ProjectPhaseProvisioning
                    /\ project.phase # ProjectPhaseProvisioning

\* the step writes the Application's initial phase
PendingWritten ==
    app'.exists /\ app'.phase = ApplicationPhasePending
                /\ app.phase # ApplicationPhasePending

\* C40: Provisioning and Pending are written only over the empty phase, by the
\* step that sets the initial phase, and the phase of a stored Project or
\* Application is never emptied again: a Project that left Provisioning and an
\* Application that left Pending do not come back to it.
C40_InitialPhaseOnlyFromEmpty ==
    [][/\ ProvisioningWritten =>
            /\ project.exists /\ project.phase = ""
            /\ last'.op = "project" /\ last'.branch = "initphase"
       /\ PendingWritten =>
            /\ app.exists /\ app.phase = ""
            /\ last'.op = "app" /\ last'.branch = "initphase"
       /\ (project.exists /\ project.phase # "" /\ project'.exists) => project'.phase # ""
       /\ (app.exists /\ app.phase # "" /\ app'.exists) => app'.phase # ""]_vars

\* C40 witness: a Project that failed on an environment and an Application that
\* failed on its missing Project, both past their initial phases, reconciled
\* again
C40_Witness ==
    /\ project.exists /\ project.phase = ProjectPhaseFailed
    /\ app.exists /\ app.phase = ApplicationPhaseFailed
    /\ last.op = "app" /\ last.branch = "projectNotReady"

====
